---- MODULE Spec2Model ----
(***************************************************************************)
(* LLM-Router: fixed-window rate limiter, model registry, preferences      *)
(* store, analytics log, router (analyzeAndRoute / callSelectedModel /     *)
(* routeAndRespond) and the POST/GET handlers of /api/chat.                *)
(*                                                                         *)
(* Conventions of the model                                                *)
(*  - times are milliseconds (Date.now()), starting at 0;                  *)
(*  - a user message is represented by its length in characters;           *)
(*  - confidences are in tenths (0.2 is 2, 0.8 is 8);                      *)
(*  - an Error message is the sequence of its words and punctuation marks, *)
(*    so that String.includes is a contiguous-subsequence test;            *)
(*  - a JavaScript Map is a function whose DOMAIN is its key set;          *)
(*  - of a model descriptor the provider, strengths and use cases, and of  *)
(*    the selection call the prompt text, are left out: the backend's      *)
(*    reply is any member of SelectionReplies whatever the prompt.         *)
(***************************************************************************)
EXTENDS Integers, Sequences, FiniteSets, TLC

VARIABLES
    now,              \* Date.now()
    requests,         \* RateLimiter.requests : Map<'global', RateLimitEntry>
    registry,         \* the AVAILABLE_MODELS array (one branch of analyzeAndRoute sorts it in place)
    userPreferences,  \* preferencesManager's Map<userId, RoutingPreferences>
    analytics,        \* AnalyticsTracker.analytics
    req,              \* per request: program position and locals of POST / routeAndRespond
    outcome,          \* per request: what POST /api/chat answered
    hist,             \* per request: history of the invocation (observation only)
    lastProbe,        \* what canMakeRequest did in the last step (observation only)
    window,           \* the current fixed window, kept by the clock (observation only)
    lastCall,         \* the last step's call, if it was one of the other API calls, and its result
    recorded          \* the entries logged since the last reset, oldest first (observation only)

vars == <<now, requests, registry, userPreferences, analytics, req, outcome,
          hist, lastProbe, window, lastCall, recorded>>

----------------------------------------------------------------------------
(* Bounds of the model *)

MaxNow == 120000
TickMs == 60000
\* the clock of the limiter-only specification: steps of StepMs and of
\* StepMs + 1 milliseconds, up to MaxClock
StepMs == 30000
MaxClock == 150000

\* The analytics tracker: the arguments of the logged decisions vary from
\* VariedBelow entries short of the capacity of the log on, and the log is
\* filled up to MaxOver entries past its capacity
VariedBelow == 2
MaxOver == 2

\* The message lengths the context estimate is taken of: the multiples of
\* LengthStride up to LengthSteps of them, besides the boundary lengths
LengthSteps == 100
LengthStride == 4001

Requests == {"r1", "r2"}

----------------------------------------------------------------------------
(* Program constants *)

MAX_REQUESTS_PER_MINUTE == 20
RATE_LIMIT_WINDOW_MS == 60000
MAX_DECISIONS_LOGGED == 1000
TOKEN_ESTIMATION_RATIO == 4
CONTEXT_MULTIPLIER_THRESHOLD == 1000
CONTEXT_MULTIPLIER_FACTOR == 2
MAX_CONTEXT_FALLBACK == 100000
MAX_MESSAGE_LENGTH == 10000
RETRY_AFTER_SECONDS == 60

----------------------------------------------------------------------------
(* Model registry *)

Model(id, name, ctx, speed, cat) ==
    [id |-> id, name |-> name, contextWindow |-> ctx, speed |-> speed, category |-> cat]

AVAILABLE_MODELS ==
    << Model("mistralai/mistral-small-24b-instruct-2501:free", "Mistral Small 3", 32768, "fast", "general"),
       Model("google/gemini-2.5-pro-exp-03-25", "Gemini 2.5 Pro Experimental", 1048576, "medium", "analysis"),
       Model("qwen/qwen3-235b-a22b:free", "Qwen3 235B A22B", 131072, "slow", "reasoning"),
       Model("deepseek/deepseek-r1:free", "DeepSeek R1", 163840, "medium", "reasoning"),
       Model("qwen/qwen3-coder:free", "Qwen3 Coder 480B A35B", 262144, "medium", "coding"),
       Model("agentica-org/deepcoder-14b-preview:free", "DeepCoder 14B Preview", 96000, "fast", "coding"),
       Model("qwen/qwen-2.5-coder-32b-instruct:free", "Qwen2.5 Coder 32B", 32768, "fast", "coding"),
       Model("mistralai/mistral-small-3.2-24b-instruct:free", "Mistral Small 3.2 24B", 131072, "fast", "general"),
       Model("meta-llama/llama-3.3-70b-instruct:free", "Llama 3.3 70B", 65536, "medium", "creative"),
       Model("deepseek/deepseek-chat-v3-0324:free", "DeepSeek V3 0324", 163840, "fast", "general"),
       Model("google/gemma-3n-e2b-it:free", "Gemma 3n 2B", 8192, "fast", "general"),
       Model("mistralai/mistral-7b-instruct:free", "Mistral 7B", 32768, "fast", "general") >>

Range(s) == {s[i] : i \in DOMAIN s}

ROUTER_MODEL_ID == "mistralai/mistral-small-24b-instruct-2501:free"

\* Array.prototype.filter
RECURSIVE Filter(_, _)
Filter(s, keep) ==
    IF s = <<>> THEN <<>>
    ELSE IF Head(s) \in keep THEN <<Head(s)>> \o Filter(Tail(s), keep)
    ELSE Filter(Tail(s), keep)

\* Array.prototype.slice(from, to) with 0-based from, exclusive to
Slice(s, from, to) ==
    SubSeq(s, from + 1, IF to < Len(s) THEN to ELSE Len(s))

\* An optional value (undefined | x) is the sequence <<>> or <<x>>
None == <<>>
Some(x) == <<x>>

\* Array.prototype.find
Find(s, keep) ==
    IF \E i \in DOMAIN s : s[i] \in keep
    THEN Some(s[CHOOSE i \in DOMAIN s : s[i] \in keep /\ \A j \in 1..(i - 1) : s[j] \notin keep])
    ELSE None

getModelsByContextRequirement(models, minContext) ==
    Filter(models, {m \in Range(models) : m.contextWindow >= minContext})

getFastestModels(models) ==
    Filter(models, {m \in Range(models) : m.speed = "fast"})

\* AVAILABLE_MODELS.sort((a, b) => b.contextWindow - a.contextWindow): stable, descending
RECURSIVE InsertByContext(_, _)
InsertByContext(m, s) ==
    IF s = <<>> THEN <<m>>
    ELSE IF Head(s).contextWindow >= m.contextWindow
         THEN <<Head(s)>> \o InsertByContext(m, Tail(s))
         ELSE <<m>> \o s

RECURSIVE SortByContextDesc(_)
SortByContextDesc(s) ==
    IF s = <<>> THEN <<>>
    ELSE InsertByContext(s[Len(s)], SortByContextDesc(SubSeq(s, 1, Len(s) - 1)))

----------------------------------------------------------------------------
(* Rate limiter *)

NoWindow == [k \in {} |-> 0]

Entry(c, rt) == [k \in {"global"} |-> [count |-> c, resetTime |-> rt]]

\* canMakeRequest with (entry.count > maxRequestsPerMinute) for the capacity test
canMakeRequest_OffByOne(reqs, t) ==
    IF "global" \notin DOMAIN reqs \/ t > reqs["global"].resetTime
    THEN [allowed |-> TRUE, requests |-> Entry(1, t + RATE_LIMIT_WINDOW_MS), probe |-> "reset"]
    ELSE IF reqs["global"].count > MAX_REQUESTS_PER_MINUTE
    THEN [allowed |-> FALSE, requests |-> reqs, probe |-> "deny"]
    ELSE [allowed |-> TRUE,
          requests |-> Entry(reqs["global"].count + 1, reqs["global"].resetTime),
          probe |-> "admit"]

\* canMakeRequest that extends an expired window from its old reset time
canMakeRequest_StaleReset(reqs, t) ==
    IF "global" \notin DOMAIN reqs
    THEN [allowed |-> TRUE, requests |-> Entry(1, t + RATE_LIMIT_WINDOW_MS), probe |-> "reset"]
    ELSE IF t > reqs["global"].resetTime
    THEN [allowed |-> TRUE,
          requests |-> Entry(1, reqs["global"].resetTime + RATE_LIMIT_WINDOW_MS),
          probe |-> "reset"]
    ELSE IF reqs["global"].count >= MAX_REQUESTS_PER_MINUTE
    THEN [allowed |-> FALSE, requests |-> reqs, probe |-> "deny"]
    ELSE [allowed |-> TRUE,
          requests |-> Entry(reqs["global"].count + 1, reqs["global"].resetTime),
          probe |-> "admit"]

\* canMakeRequest that increments the count before the capacity test
canMakeRequest_CountsDenied(reqs, t) ==
    IF "global" \notin DOMAIN reqs \/ t > reqs["global"].resetTime
    THEN [allowed |-> TRUE, requests |-> Entry(1, t + RATE_LIMIT_WINDOW_MS), probe |-> "reset"]
    ELSE IF reqs["global"].count >= MAX_REQUESTS_PER_MINUTE
    THEN [allowed |-> FALSE,
          requests |-> Entry(reqs["global"].count + 1, reqs["global"].resetTime),
          probe |-> "deny"]
    ELSE [allowed |-> TRUE,
          requests |-> Entry(reqs["global"].count + 1, reqs["global"].resetTime),
          probe |-> "admit"]

\* canMakeRequest run on the map reqs at time t: the boolean returned, the
\* map it leaves behind, and which branch was taken.
\* canMakeRequest that opens a window without counting the request opening it
canMakeRequest_OpensEmpty(reqs, t) ==
    IF "global" \notin DOMAIN reqs \/ t > reqs["global"].resetTime
    THEN [allowed |-> TRUE,
          requests |-> Entry(0, t + RATE_LIMIT_WINDOW_MS),
          probe |-> "reset"]
    ELSE IF reqs["global"].count >= MAX_REQUESTS_PER_MINUTE
    THEN [allowed |-> FALSE, requests |-> reqs, probe |-> "deny"]
    ELSE [allowed |-> TRUE,
          requests |-> Entry(reqs["global"].count + 1, reqs["global"].resetTime),
          probe |-> "admit"]

canMakeRequest(reqs, t) ==
    IF "global" \notin DOMAIN reqs \/ t > reqs["global"].resetTime
    THEN [allowed |-> TRUE, requests |-> Entry(1, t + RATE_LIMIT_WINDOW_MS), probe |-> "reset"]
    ELSE IF reqs["global"].count >= MAX_REQUESTS_PER_MINUTE
    THEN [allowed |-> FALSE, requests |-> reqs, probe |-> "deny"]
    ELSE [allowed |-> TRUE,
          requests |-> Entry(reqs["global"].count + 1, reqs["global"].resetTime),
          probe |-> "admit"]

Max(a, b) == IF a >= b THEN a ELSE b
Min(a, b) == IF a <= b THEN a ELSE b

\* getTimeUntilReset that answers a full window when none is running
getTimeUntilReset_FullWindow(reqs, t) ==
    IF "global" \notin DOMAIN reqs \/ t > reqs["global"].resetTime
    THEN RATE_LIMIT_WINDOW_MS
    ELSE reqs["global"].resetTime - t

getTimeUntilReset(reqs, t) ==
    IF "global" \notin DOMAIN reqs \/ t > reqs["global"].resetTime
    THEN 0
    ELSE Max(0, reqs["global"].resetTime - t)

getCurrentCount(reqs, t) ==
    IF "global" \notin DOMAIN reqs \/ t > reqs["global"].resetTime
    THEN 0
    ELSE reqs["global"].count

\* getStatus that reads isLimited off the count and leaves the map alone
getStatus_NonConsuming(reqs, t) ==
    LET limited == getCurrentCount(reqs, t) >= MAX_REQUESTS_PER_MINUTE
    IN [status |-> [currentCount |-> getCurrentCount(reqs, t),
                    maxRequests |-> MAX_REQUESTS_PER_MINUTE,
                    timeUntilReset |-> getTimeUntilReset(reqs, t),
                    isLimited |-> limited],
        allowed |-> ~limited,
        requests |-> reqs,
        probe |-> IF limited THEN "deny" ELSE "admit"]

\* getStatus: the object returned and the map left behind by its canMakeRequest
getStatus(reqs, t) ==
    LET probe == canMakeRequest(reqs, t)
    IN [status |-> [currentCount |-> getCurrentCount(reqs, t),
                    maxRequests |-> MAX_REQUESTS_PER_MINUTE,
                    timeUntilReset |-> getTimeUntilReset(reqs, t),
                    isLimited |-> ~probe.allowed],
        allowed |-> probe.allowed,
        requests |-> probe.requests,
        probe |-> probe.probe]

----------------------------------------------------------------------------
(* Preferences store *)

DEFAULT_ROUTING_PREFERENCES ==
    [priority |-> "balanced", maxLatency |-> 5000, minQuality |-> 7,
     allowedCategories |-> <<>>, excludedModels |-> <<>>]

PRIORITY_WEIGHTS == {"latency", "quality", "balanced"}

\* getUserPreferences that answers a user without a record with a record
\* of another user
getUserPreferences_AnyRecord(store, userId) ==
    IF userId \in DOMAIN store THEN store[userId]
    ELSE IF DOMAIN store # {} THEN store[CHOOSE u \in DOMAIN store : TRUE]
    ELSE DEFAULT_ROUTING_PREFERENCES

getUserPreferences(store, userId) ==
    IF userId \in DOMAIN store THEN store[userId] ELSE DEFAULT_ROUTING_PREFERENCES

\* {...a, ...b}
Spread(a, b) ==
    [f \in DOMAIN a \cup DOMAIN b |-> IF f \in DOMAIN b THEN b[f] ELSE a[f]]

\* `Invalid priority: ${priority}. Must be one of: latency, quality, balanced`
InvalidPriorityError(priority) ==
    <<"Invalid", "priority", ":", priority, ".", "Must", "be", "one", "of", ":",
      "latency", ",", "quality", ",", "balanced">>

\* The error validatePreferences throws, or None when it returns
validatePreferences(preferences) ==
    IF preferences.priority \notin PRIORITY_WEIGHTS
    THEN Some(InvalidPriorityError(preferences.priority))
    ELSE None

\* Map.prototype.set and Map.prototype.delete
MapSet(store, key, value) ==
    [k \in DOMAIN store \cup {key} |-> IF k = key THEN value ELSE store[k]]

MapDelete(store, key) == [k \in DOMAIN store \ {key} |-> store[k]]

\* setUserPreferences that merges the partial onto the default record
setUserPreferences_Replaces(store, userId, preferences) ==
    LET updatedPrefs == Spread(DEFAULT_ROUTING_PREFERENCES, preferences)
        invalid == validatePreferences(updatedPrefs)
    IN IF invalid # None
       THEN [kind |-> "throw", error |-> invalid[1], store |-> store, result |-> None]
       ELSE [kind |-> "return", error |-> <<>>,
             store |-> MapSet(store, userId, updatedPrefs), result |-> Some(updatedPrefs)]

\* setUserPreferences that stores the record before it validates it
setUserPreferences_StoresFirst(store, userId, preferences) ==
    LET currentPrefs == getUserPreferences(store, userId)
        updatedPrefs == Spread(currentPrefs, preferences)
        invalid == validatePreferences(updatedPrefs)
    IN IF invalid # None
       THEN [kind |-> "throw", error |-> invalid[1],
             store |-> MapSet(store, userId, updatedPrefs), result |-> None]
       ELSE [kind |-> "return", error |-> <<>>,
             store |-> MapSet(store, userId, updatedPrefs), result |-> Some(updatedPrefs)]

\* setUserPreferences: the record returned or the error thrown, and the map
\* left behind
setUserPreferences(store, userId, preferences) ==
    LET currentPrefs == getUserPreferences(store, userId)
        updatedPrefs == Spread(currentPrefs, preferences)
        invalid == validatePreferences(updatedPrefs)
    IN IF invalid # None
       THEN [kind |-> "throw", error |-> invalid[1], store |-> store, result |-> None]
       ELSE [kind |-> "return", error |-> <<>>,
             store |-> MapSet(store, userId, updatedPrefs), result |-> Some(updatedPrefs)]

\* resetUserPreferences that writes the default record over the stored one
resetUserPreferences_Overwrites(store, userId) ==
    [store |-> MapSet(store, userId, DEFAULT_ROUTING_PREFERENCES),
     result |-> DEFAULT_ROUTING_PREFERENCES]

resetUserPreferences(store, userId) ==
    [store |-> MapDelete(store, userId), result |-> DEFAULT_ROUTING_PREFERENCES]

\* The keys of the priorities record of getPreferenceStats
StatsPriorities == {"auto", "cost", "latency", "quality", "balanced"}

getPreferenceStats(store) ==
    LET custom == {u \in DOMAIN store :
                     \/ Len(store[u].allowedCategories) > 0
                     \/ Len(store[u].excludedModels) > 0}
    IN [totalUsers |-> Cardinality(DOMAIN store),
        usersWithCustomSettings |-> Cardinality(custom),
        priorityDistribution |->
            [p \in StatsPriorities |-> Cardinality({u \in DOMAIN store : store[u].priority = p})],
        defaultUsers |-> Cardinality(DOMAIN store) - Cardinality(custom)]

----------------------------------------------------------------------------
(* Analytics log *)

RECURSIVE Gcd(_, _)
Gcd(a, b) == IF b = 0 THEN a ELSE Gcd(b, a % b)

\* An exact fraction in lowest terms (averageProcessingTime is a JavaScript number)
Rat(n, d) == LET g == Gcd(n, d) IN [num |-> n \div g, den |-> d \div g]

EmptyAnalytics ==
    [totalRequests |-> 0, modelUsage |-> <<>>, categoryUsage |-> <<>>,
     averageProcessingTime |-> Rat(0, 1), totalTokensUsed |-> 0,
     routingDecisions |-> <<>>]

\* A Record<string, number> keeps its keys in insertion order: a sequence of
\* [key, count]. usage[key] = (usage[key] || 0) + 1
\* Bump that counts a key only the first time it is seen
Bump_FirstOnly(usage, key) ==
    IF \E i \in DOMAIN usage : usage[i].key = key
    THEN usage
    ELSE Append(usage, [key |-> key, count |-> 1])

Bump(usage, key) ==
    IF \E i \in DOMAIN usage : usage[i].key = key
    THEN LET at == CHOOSE i \in DOMAIN usage : usage[i].key = key
         IN [usage EXCEPT ![at] = [key |-> key, count |-> usage[at].count + 1]]
    ELSE Append(usage, [key |-> key, count |-> 1])

\* The RoutingDecisionLog entry (its id, a time stamp and a random suffix, is
\* left out)
DecisionLog(userMessage, selectedModel, modelCategory, reasoning, confidence, processingTime, tokensUsed, estimatedCost, priority, t) ==
    [timestamp |-> t,
     userMessage |-> Min(userMessage, 200),
     selectedModel |-> selectedModel,
     modelCategory |-> modelCategory,
     reasoning |-> reasoning,
     confidence |-> confidence,
     processingTime |-> processingTime,
     tokensUsed |-> tokensUsed,
     estimatedCost |-> estimatedCost,
     priority |-> priority]

\* logRoutingDecision that takes totalRequests from the length of the log
logRoutingDecision_CountsLog(a, userMessage, selectedModel, modelCategory, reasoning, confidence, processingTime, tokensUsed, estimatedCost, priority, t) ==
    LET entry == DecisionLog(userMessage, selectedModel, modelCategory, reasoning, confidence,
                             processingTime, tokensUsed, estimatedCost, priority, t)
        n == a.totalRequests + 1
        currentAvg == a.averageProcessingTime
        log == <<entry>> \o a.routingDecisions
    IN [totalRequests |-> Min(Len(log), MAX_DECISIONS_LOGGED),
        modelUsage |-> Bump(a.modelUsage, selectedModel),
        categoryUsage |-> Bump(a.categoryUsage, modelCategory),
        totalTokensUsed |-> a.totalTokensUsed + tokensUsed,
        averageProcessingTime |->
            Rat(currentAvg.num * (n - 1) + processingTime * currentAvg.den, currentAvg.den * n),
        routingDecisions |->
            IF Len(log) > MAX_DECISIONS_LOGGED THEN Slice(log, 0, MAX_DECISIONS_LOGGED) ELSE log]

\* logRoutingDecision that cuts the log with slice(1) instead of slice(0, max)
logRoutingDecision_DropsNewest(a, userMessage, selectedModel, modelCategory, reasoning, confidence, processingTime, tokensUsed, estimatedCost, priority, t) ==
    LET entry == DecisionLog(userMessage, selectedModel, modelCategory, reasoning, confidence,
                             processingTime, tokensUsed, estimatedCost, priority, t)
        n == a.totalRequests + 1
        currentAvg == a.averageProcessingTime
        log == <<entry>> \o a.routingDecisions
    IN [totalRequests |-> n,
        modelUsage |-> Bump(a.modelUsage, selectedModel),
        categoryUsage |-> Bump(a.categoryUsage, modelCategory),
        totalTokensUsed |-> a.totalTokensUsed + tokensUsed,
        averageProcessingTime |->
            Rat(currentAvg.num * (n - 1) + processingTime * currentAvg.den, currentAvg.den * n),
        routingDecisions |->
            IF Len(log) > MAX_DECISIONS_LOGGED THEN Tail(log) ELSE log]

\* The sum of the processing times of log[from .. to]
RECURSIVE TimesIn(_, _, _)
TimesIn(log, from, to) ==
    IF from > to THEN 0
    ELSE IF from = to THEN log[from].processingTime
    ELSE TimesIn(log, from, (from + to) \div 2) + TimesIn(log, (from + to) \div 2 + 1, to)

\* logRoutingDecision that takes the mean of the entries the log holds
logRoutingDecision_AveragesLog(a, userMessage, selectedModel, modelCategory, reasoning, confidence, processingTime, tokensUsed, estimatedCost, priority, t) ==
    LET entry == DecisionLog(userMessage, selectedModel, modelCategory, reasoning, confidence,
                             processingTime, tokensUsed, estimatedCost, priority, t)
        n == a.totalRequests + 1
        log == <<entry>> \o a.routingDecisions
        kept == IF Len(log) > MAX_DECISIONS_LOGGED THEN Slice(log, 0, MAX_DECISIONS_LOGGED) ELSE log
    IN [totalRequests |-> n,
        modelUsage |-> Bump(a.modelUsage, selectedModel),
        categoryUsage |-> Bump(a.categoryUsage, modelCategory),
        totalTokensUsed |-> a.totalTokensUsed + tokensUsed,
        averageProcessingTime |-> Rat(TimesIn(kept, 1, Len(kept)), Len(kept)),
        routingDecisions |-> kept]

logRoutingDecision(a, userMessage, selectedModel, modelCategory, reasoning, confidence, processingTime, tokensUsed, estimatedCost, priority, t) ==
    LET entry == DecisionLog(userMessage, selectedModel, modelCategory, reasoning, confidence,
                             processingTime, tokensUsed, estimatedCost, priority, t)
        n == a.totalRequests + 1
        currentAvg == a.averageProcessingTime
        log == <<entry>> \o a.routingDecisions
    IN [totalRequests |-> n,
        modelUsage |-> Bump(a.modelUsage, selectedModel),
        categoryUsage |-> Bump(a.categoryUsage, modelCategory),
        totalTokensUsed |-> a.totalTokensUsed + tokensUsed,
        averageProcessingTime |->
            Rat(currentAvg.num * (n - 1) + processingTime * currentAvg.den, currentAvg.den * n),
        routingDecisions |->
            IF Len(log) > MAX_DECISIONS_LOGGED THEN Slice(log, 0, MAX_DECISIONS_LOGGED) ELSE log]

\* Math.round of a non-negative fraction
Round(x) == (2 * x.num + x.den) \div (2 * x.den)

\* Object.entries(usage).sort(([,a], [,b]) => b - a)[0]: the sort is stable,
\* so this is the first entry, in insertion order, that has the largest count
MostUsed(usage) ==
    IF usage = <<>> THEN None
    ELSE Some(usage[CHOOSE i \in DOMAIN usage :
                        /\ \A j \in DOMAIN usage : usage[j].count <= usage[i].count
                        /\ \A j \in 1..(i - 1) : usage[j].count < usage[i].count])

getAnalyticsSummary(a) ==
    [totalRequests |-> a.totalRequests,
     mostUsedModel |-> MostUsed(a.modelUsage),
     mostUsedCategory |-> MostUsed(a.categoryUsage),
     averageProcessingTime |-> Round(a.averageProcessingTime),
     totalTokensUsed |-> a.totalTokensUsed,
     recentDecisions |-> Slice(a.routingDecisions, 0, 10)]

getAnalytics(a) == a

getModelUsageStats(a) ==
    [byModel |-> a.modelUsage, byCategory |-> a.categoryUsage,
     totalModelsUsed |-> Len(a.modelUsage), totalCategoriesUsed |-> Len(a.categoryUsage)]

\* resetAnalytics that keeps the decision log
resetAnalytics_KeepsLog(a) == [EmptyAnalytics EXCEPT !.routingDecisions = a.routingDecisions]

\* resetAnalytics: the object that replaces this.analytics
resetAnalytics(a) == EmptyAnalytics

----------------------------------------------------------------------------
(* Router: pure parts *)

CeilDiv(a, b) == (a + b - 1) \div b

estimatedTokens(messageLength) == CeilDiv(messageLength, TOKEN_ESTIMATION_RATIO)

\* minContextNeeded without the multiplier for long messages
minContextNeeded_NoMultiplier(messageLength) ==
    Min(estimatedTokens(messageLength), MAX_CONTEXT_FALLBACK)

minContextNeeded(messageLength) ==
    LET tokens == estimatedTokens(messageLength)
        contextMultiplier ==
            IF tokens > CONTEXT_MULTIPLIER_THRESHOLD THEN CONTEXT_MULTIPLIER_FACTOR ELSE 1
    IN Min(tokens * contextMultiplier, MAX_CONTEXT_FALLBACK)

\* Lines 68 to 78 of analyzeAndRoute: the context estimate, the candidate list
\* before the preference filters, and the registry array as the step leaves it
candidatesByContext(models, message) ==
    LET qualified == getModelsByContextRequirement(models, minContextNeeded(message))
        sorted == SortByContextDesc(models)
    IN [minContextNeeded |-> minContextNeeded(message),
        availableModels |-> IF Len(qualified) = 0 THEN Slice(sorted, 0, 5) ELSE qualified,
        registry |-> IF Len(qualified) = 0 THEN sorted ELSE models]

\* applyUserPreferences without its filter on excludedModels
applyUserPreferences_KeepsExcluded(models, preferences) ==
    LET byCategory ==
            IF Len(preferences.allowedCategories) > 0
            THEN Filter(models, {m \in Range(models) :
                                   m.category \in Range(preferences.allowedCategories)})
            ELSE models
    IN IF Len(byCategory) > 0 THEN byCategory ELSE models

\* applyUserPreferences that returns the filtered list even when it is empty
applyUserPreferences_NoFallback(models, preferences) ==
    LET byCategory ==
            IF Len(preferences.allowedCategories) > 0
            THEN Filter(models, {m \in Range(models) :
                                   m.category \in Range(preferences.allowedCategories)})
            ELSE models
    IN IF Len(preferences.excludedModels) > 0
       THEN Filter(byCategory, {m \in Range(byCategory) :
                                  m.id \notin Range(preferences.excludedModels)})
       ELSE byCategory

applyUserPreferences(models, preferences) ==
    LET byCategory ==
            IF Len(preferences.allowedCategories) > 0
            THEN Filter(models, {m \in Range(models) :
                                   m.category \in Range(preferences.allowedCategories)})
            ELSE models
        filteredModels ==
            IF Len(preferences.excludedModels) > 0
            THEN Filter(byCategory, {m \in Range(byCategory) :
                                       m.id \notin Range(preferences.excludedModels)})
            ELSE byCategory
    IN IF Len(filteredModels) > 0 THEN filteredModels ELSE models

RateLimitReasoning == "Rate limit exceeded, using fastest available model for quick response"
NoModelsReasoning == "No models available after applying user preferences, using fastest fallback"
UnknownModelReasoning == "Router selected unknown model, using fastest available fallback"
AnalysisFailedReasoning == "Router analysis failed, using fastest available model as fallback"
FallbackLogReasoning == "Fallback due to routing failure"
PrimaryFailedReasoning == "Primary routing failed, used fastest available model as fallback"

\* The degraded decisions all have this shape
Degraded(models, reasoning, confidence) ==
    [selectedModel |-> getFastestModels(models)[1],
     reasoning |-> reasoning,
     confidence |-> confidence,
     alternatives |-> Tail(getFastestModels(models))]

NoDecision == [selectedModel |-> AVAILABLE_MODELS[1], reasoning |-> "", confidence |-> 0,
               alternatives |-> <<>>]

----------------------------------------------------------------------------
(* Errors and backend replies *)

RateLimitError == <<"Rate", "limit", "exceeded">>
NoRouterResponseError == <<"No", "response", "from", "router", "model">>
NoModelResponseError == <<"No", "response", "from", "selected", "model">>
AllFailedError ==
    <<"All", "routing", "attempts", "failed", ".", "Please", "try", "again", "later", ".">>
BackendError == <<"Connection", "error", ".">>
BodyParseError == <<"Unexpected", "end", "of", "JSON", "input">>

\* String.prototype.includes
Includes(text, needle) ==
    \E i \in 1..(Len(text) - Len(needle) + 1) :
        SubSeq(text, i, i + Len(needle) - 1) = needle

\* What openai.chat.completions.create can do for the selection call:
\* throw, or return a completion whose content is absent, is not JSON, is the
\* JSON value null, or is a JSON object {modelId, reasoning, confidence}
\* (confidence optional).
SelectionReply(kind, modelId, reasoning, confidence) ==
    [kind |-> kind, modelId |-> modelId, reasoning |-> reasoning, confidence |-> confidence]

SelectableIds ==
    {"deepseek/deepseek-r1:free", "no-such/model"}

SelectionReplies ==
    {SelectionReply(k, "", "", None) : k \in {"throws", "nocontent", "unparsable", "null"}}
    \cup {SelectionReply("object", id, "x", c) :
            id \in SelectableIds, c \in {None, Some(0), Some(9)}}

\* What it can do for the generation call: throw, or return a completion with
\* optional content and optional usage.total_tokens.
GenerationReply(kind, content, usage) ==
    [kind |-> kind, content |-> content, usage |-> usage]

GenerationReplies ==
    {GenerationReply("throws", None, None),
     GenerationReply("completion", None, None),
     GenerationReply("completion", Some(""), Some(7)),
     GenerationReply("completion", Some("Hello"), None),
     GenerationReply("completion", Some("Hello"), Some(42))}

----------------------------------------------------------------------------
(* Router: analyzeAndRoute *)

\* analyzeAndRouteEntry that sorts the registry array by context window on
\* every call, before it takes the candidates from it
analyzeAndRouteEntry_SortsFirst(models, store, reqs, t, message, userId) ==
    LET check == canMakeRequest(reqs, t)
        userPrefs == getUserPreferences(store, userId)
        sorted == SortByContextDesc(models)
        qualified == getModelsByContextRequirement(sorted, minContextNeeded(message))
        byContext == IF Len(qualified) = 0 THEN Slice(sorted, 0, 5) ELSE qualified
        availableModels ==
            IF userPrefs.priority # "auto"
            THEN applyUserPreferences(byContext, userPrefs)
            ELSE byContext
    IN IF ~check.allowed
       THEN [kind |-> "return", allowed |-> FALSE,
             probe |-> check.probe, requests |-> check.requests,
             registry |-> models, userPrefs |-> userPrefs, availableModels |-> <<>>,
             decision |-> Degraded(models, RateLimitReasoning, 5)]
       ELSE IF Len(availableModels) = 0
       THEN [kind |-> "return", allowed |-> TRUE,
             probe |-> check.probe, requests |-> check.requests,
             registry |-> sorted, userPrefs |-> userPrefs, availableModels |-> availableModels,
             decision |-> Degraded(sorted, NoModelsReasoning, 3)]
       ELSE [kind |-> "await", allowed |-> TRUE,
             probe |-> check.probe, requests |-> check.requests,
             registry |-> sorted, userPrefs |-> userPrefs, availableModels |-> availableModels,
             decision |-> NoDecision]

\* analyzeAndRoute from its entry to its first suspension or return.
\* kind = "return": the decision is returned without a selection call;
\* kind = "await":  the selection call was issued with availableModels.
analyzeAndRouteEntry(models, store, reqs, t, message, userId) ==
    LET check == canMakeRequest(reqs, t)
        userPrefs == getUserPreferences(store, userId)
        qualified == getModelsByContextRequirement(models, minContextNeeded(message))
        sorted == SortByContextDesc(models)
        byContext == IF Len(qualified) = 0 THEN Slice(sorted, 0, 5) ELSE qualified
        availableModels ==
            IF userPrefs.priority # "auto"
            THEN applyUserPreferences(byContext, userPrefs)
            ELSE byContext
        models1 == IF Len(qualified) = 0 THEN sorted ELSE models
    IN IF ~check.allowed
       THEN [kind |-> "return", allowed |-> FALSE,
             probe |-> check.probe, requests |-> check.requests,
             registry |-> models, userPrefs |-> userPrefs, availableModels |-> <<>>,
             decision |-> Degraded(models, RateLimitReasoning, 5)]
       ELSE IF Len(availableModels) = 0
       THEN [kind |-> "return", allowed |-> TRUE,
             probe |-> check.probe, requests |-> check.requests,
             registry |-> models1, userPrefs |-> userPrefs, availableModels |-> availableModels,
             decision |-> Degraded(models1, NoModelsReasoning, 3)]
       ELSE [kind |-> "await", allowed |-> TRUE,
             probe |-> check.probe, requests |-> check.requests,
             registry |-> models1, userPrefs |-> userPrefs, availableModels |-> availableModels,
             decision |-> NoDecision]

\* The text sent with the selection call, by the values it is formatted
\* from: the message, the priority (also in the system message), the
\* category and exclusion lines, and the models listed
createRouterPrompt(message, availableModels, userPrefs) ==
    [message |-> message,
     priority |-> userPrefs.priority,
     categories |-> IF Len(userPrefs.allowedCategories) > 0
                    THEN Some(userPrefs.allowedCategories) ELSE None,
     excluded |-> IF Len(userPrefs.excludedModels) > 0
                  THEN Some(userPrefs.excludedModels) ELSE None,
     models |-> availableModels]

\* JavaScript's (x || d) on an optional number
OrElse(opt, d) == IF opt = None \/ opt[1] = 0 THEN d ELSE opt[1]

\* analyzeAndRouteResume that treats an unknown model id as a failed analysis
analyzeAndRouteResume_UnknownAsFailure(models, availableModels, reply) ==
    LET caught == [kind |-> "return",
                   decision |-> Degraded(models, AnalysisFailedReasoning, 2)]
        selectedModel == Find(models, {m \in Range(models) : m.id = reply.modelId})
    IN IF reply.kind \in {"throws", "nocontent", "unparsable", "null"}
       THEN caught
       ELSE IF selectedModel = None
       THEN caught
       ELSE [kind |-> "return",
             decision |->
                [selectedModel |-> selectedModel[1],
                 reasoning |-> reply.reasoning,
                 confidence |-> OrElse(reply.confidence, 8),
                 alternatives |->
                    Slice(Filter(availableModels,
                                 {m \in Range(availableModels) : m.id # selectedModel[1].id}),
                          0, 3)]]

\* analyzeAndRouteResume whose catch handler rethrows instead of degrading
analyzeAndRouteResume_Propagates(models, availableModels, reply) ==
    LET selectedModel == Find(models, {m \in Range(models) : m.id = reply.modelId})
    IN IF reply.kind \in {"throws", "nocontent", "unparsable", "null"}
       THEN [kind |-> "throw", decision |-> NoDecision]
       ELSE IF selectedModel = None
       THEN [kind |-> "return", decision |-> Degraded(models, UnknownModelReasoning, 3)]
       ELSE [kind |-> "return",
             decision |->
                [selectedModel |-> selectedModel[1],
                 reasoning |-> reply.reasoning,
                 confidence |-> OrElse(reply.confidence, 8),
                 alternatives |->
                    Slice(Filter(availableModels,
                                 {m \in Range(availableModels) : m.id # selectedModel[1].id}),
                          0, 3)]]

\* analyzeAndRoute from the return of the selection call to its own return.
\* kind = "return" with the decision, or kind = "throw" with the error.
analyzeAndRouteResume(models, availableModels, reply) ==
    LET caught == [kind |-> "return",
                   decision |-> Degraded(models, AnalysisFailedReasoning, 2)]
        selectedModel == Find(models, {m \in Range(models) : m.id = reply.modelId})
    IN IF reply.kind \in {"throws", "nocontent", "unparsable", "null"}
       THEN caught
       ELSE IF selectedModel = None
       THEN [kind |-> "return", decision |-> Degraded(models, UnknownModelReasoning, 3)]
       ELSE [kind |-> "return",
             decision |->
                [selectedModel |-> selectedModel[1],
                 reasoning |-> reply.reasoning,
                 confidence |-> OrElse(reply.confidence, 8),
                 alternatives |->
                    Slice(Filter(availableModels,
                                 {m \in Range(availableModels) : m.id # selectedModel[1].id}),
                          0, 3)]]

----------------------------------------------------------------------------
(* Router: callSelectedModel *)

\* callSelectedModelEntry that logs the denial and makes the call all the same
callSelectedModelEntry_IgnoresDenial(reqs, t) ==
    LET check == canMakeRequest(reqs, t)
    IN [kind |-> "await", error |-> <<>>, allowed |-> check.allowed,
        probe |-> check.probe, requests |-> check.requests]

\* callSelectedModel that goes to the generation call without asking the limiter
callSelectedModelEntry_Unmetered(reqs, t) ==
    [kind |-> "await", error |-> <<>>, allowed |-> TRUE,
     probe |-> "none", requests |-> reqs]

\* callSelectedModel from its entry to the generation call (kind = "await")
\* or to the rate-limit error it throws (kind = "throw").
callSelectedModelEntry(reqs, t) ==
    LET check == canMakeRequest(reqs, t)
    IN IF ~check.allowed
       THEN [kind |-> "throw", error |-> RateLimitError, allowed |-> FALSE,
             probe |-> check.probe, requests |-> check.requests]
       ELSE [kind |-> "await", error |-> <<>>, allowed |-> TRUE,
             probe |-> check.probe, requests |-> check.requests]

NoResponse == [content |-> "", model |-> "", reasoning |-> "", tokensUsed |-> None,
               processingTime |-> 0]

\* callSelectedModel from the return of the generation call to its own
\* return (kind = "return") or throw (kind = "throw").
callSelectedModelResume(modelConfig, reply, startTime, t) ==
    IF reply.kind = "throws"
    THEN [kind |-> "throw", error |-> BackendError, response |-> NoResponse]
    ELSE IF reply.content = None \/ reply.content = Some("")
    THEN [kind |-> "throw", error |-> NoModelResponseError, response |-> NoResponse]
    ELSE [kind |-> "return", error |-> <<>>,
          response |-> [content |-> reply.content[1],
                        model |-> modelConfig.name,
                        reasoning |-> "",
                        tokensUsed |-> reply.usage,
                        processingTime |-> t - startTime]]

----------------------------------------------------------------------------
(* Router: routeAndRespond *)

\* Enriched that keeps the reasoning callSelectedModel left in the response
Enriched_KeepsReasoning(response, reasoning) ==
    [content |-> response.content, model |-> response.model,
     reasoning |-> response.reasoning, tokensUsed |-> response.tokensUsed]

\* The ChatResponse routeAndRespond returns (its processingTime, the time
\* since routeAndRespond was entered, is left out)
Enriched(response, reasoning) ==
    [content |-> response.content, model |-> response.model,
     reasoning |-> reasoning, tokensUsed |-> response.tokensUsed]

\* Steps 3 and 4 of routeAndRespond: log the decision, return the response
routeAndRespondSuccess(a, store, message, userId, decision, response, t) ==
    LET userPrefs == getUserPreferences(store, userId)
    IN [analytics |->
            logRoutingDecision(a, message, decision.selectedModel.id,
                               decision.selectedModel.category, decision.reasoning,
                               decision.confidence, response.processingTime,
                               OrElse(response.tokensUsed, 0), 0, userPrefs.priority, t),
        response |-> Enriched(response, decision.reasoning)]

\* routeAndRespondFallbackSuccess without its analytics.logRoutingDecision call
routeAndRespondFallbackSuccess_NoLog(a, fallbackModel, message, fallbackResponse, t) ==
    [analytics |-> a,
     response |-> Enriched(fallbackResponse, PrimaryFailedReasoning)]

\* The inner try block of the catch handler, after the fallback call returned
routeAndRespondFallbackSuccess(a, fallbackModel, message, fallbackResponse, t) ==
    [analytics |->
        logRoutingDecision(a, message, fallbackModel.id, fallbackModel.category,
                           FallbackLogReasoning, 2, fallbackResponse.processingTime,
                           OrElse(fallbackResponse.tokensUsed, 0), 0, "balanced", t),
     response |-> Enriched(fallbackResponse, PrimaryFailedReasoning)]

\* routeAndRespondFallbackFailure with (throw fallbackError)
routeAndRespondFallbackFailure_Rethrows(fallbackError) == fallbackError

\* The inner catch handler: what routeAndRespond throws when the fallback failed
routeAndRespondFallbackFailure(fallbackError) == AllFailedError

----------------------------------------------------------------------------
(* POST /api/chat *)

Body(parsable, message) == [parsable |-> parsable, message |-> message]

\* A string message: its length and its length after trim()
Text(length, trimmed) == [isString |-> TRUE, length |-> length, trimmed |-> trimmed]
NotText == [isString |-> FALSE, length |-> 0, trimmed |-> 0]

Reply(status, retryAfter, response) ==
    [status |-> status, retryAfter |-> retryAfter, response |-> response]

\* validate without the limit on the length of the message
validate_NoLengthLimit(body) ==
    IF body.message = None \/ ~body.message[1].isString
       \/ body.message[1].length = 0 \/ body.message[1].trimmed = 0
    THEN Some(Reply(400, None, None))
    ELSE None

\* The validation of the request body: the 400 answers, or None to go on
validate(body) ==
    IF body.message = None \/ ~body.message[1].isString
       \/ body.message[1].length = 0 \/ body.message[1].trimmed = 0
    THEN Some(Reply(400, None, None))
    ELSE IF body.message[1].trimmed > MAX_MESSAGE_LENGTH
    THEN Some(Reply(400, None, None))
    ELSE None

\* The catch handler of POST
onError(error) ==
    IF Includes(error, <<"Rate", "limit", "exceeded">>)
    THEN Reply(429, Some(RETRY_AFTER_SECONDS), None)
    ELSE IF Includes(error, <<"All", "routing", "attempts", "failed">>)
    THEN Reply(503, None, None)
    ELSE Reply(500, None, None)

----------------------------------------------------------------------------
(* State machine *)

MessageLengths == {16, 4004}

Bodies ==
    {Body(FALSE, None), Body(TRUE, None), Body(TRUE, Some(NotText)),
     Body(TRUE, Some(Text(0, 0))), Body(TRUE, Some(Text(3, 0))),
     Body(TRUE, Some(Text(MAX_MESSAGE_LENGTH + 1, MAX_MESSAGE_LENGTH + 1)))}
    \cup {Body(TRUE, Some(Text(n + 2, n))) : n \in MessageLengths}

Idle ==
    [pc |-> "idle", message |-> 0, availableModels |-> <<>>, decision |-> NoDecision,
     modelConfig |-> AVAILABLE_MODELS[1], startTime |-> 0]

Done == [Idle EXCEPT !.pc = "done"]

NoReply == Reply(0, None, None)

NoWindowYet == [open |-> FALSE, start |-> 0, admits |-> 0, calls |-> 0]

NoCall == [op |-> "none"]

\* What is observed of one invocation: canMakeRequest calls made and admitted,
\* whether the check of analyzeAndRoute / of the primary callSelectedModel was
\* denied, backend calls issued, the selection reply, the id of the model of
\* the decision, failed callSelectedModel calls, analytics entries appended,
\* the error routeAndRespond threw, what the selection call returned.
NoHistory ==
    [checks |-> 0, slots |-> 0, entryDenied |-> FALSE, dispatchDenied |-> FALSE,
     selCalls |-> 0, selReply |-> "none", chosen |-> "none", genCalls |-> 0,
     genFailures |-> 0, logs |-> <<>>, thrown |-> <<>>, selection |-> None,
     priority |-> None]

Init ==
    /\ now = 0
    /\ requests = NoWindow
    /\ registry = AVAILABLE_MODELS
    /\ userPreferences = [u \in {} |-> DEFAULT_ROUTING_PREFERENCES]
    /\ analytics = EmptyAnalytics
    /\ req = [r \in Requests |-> Idle]
    /\ outcome = [r \in Requests |-> NoReply]
    /\ hist = [r \in Requests |-> NoHistory]
    /\ lastProbe = "none"
    /\ window = NoWindowYet
    /\ lastCall = NoCall
    /\ recorded = <<>>

\* The window as an observer with a clock sees it: it starts at the first
\* admission made when no window is running and runs for RATE_LIMIT_WINDOW_MS;
\* admits and calls count the admissions and the outbound backend calls in it.
Observed(w, t, allowed, calls) ==
    IF ~allowed
    THEN [w EXCEPT !.calls = @ + calls]
    ELSE IF ~w.open \/ t > w.start + RATE_LIMIT_WINDOW_MS
    THEN [open |-> TRUE, start |-> t, admits |-> 1, calls |-> calls]
    ELSE [w EXCEPT !.admits = @ + 1, !.calls = @ + calls]

\* The bookkeeping of a step that ran canMakeRequest once (res) and issued
\* calls outbound backend calls
Checked(res, calls) ==
    /\ requests' = res.requests
    /\ lastProbe' = res.probe
    /\ window' = Observed(window, now, res.allowed, calls)

Unchecked ==
    /\ lastProbe' = "none"
    /\ UNCHANGED <<requests, window>>

\* The entries at the front of the log of a2 that a1 does not have
Appended(a1, a2) ==
    SubSeq(a2.routingDecisions, 1, a2.totalRequests - a1.totalRequests)

\* The history after a canMakeRequest with result res
Probed(h, res) ==
    [h EXCEPT !.checks = @ + 1, !.slots = IF res.allowed THEN @ + 1 ELSE @]

\* Date.now() advances
Tick ==
    /\ now + TickMs <= MaxNow
    /\ now' = now + TickMs
    /\ Unchecked
    /\ lastCall' = NoCall
    /\ UNCHANGED <<registry, userPreferences, analytics, req, outcome, hist, recorded>>

\* GET /api/chat: getRouterStatus, RateLimiter.getStatus
GetStatus ==
    LET st == getStatus(requests, now)
    IN /\ Checked(st, 0)
       /\ lastCall' = [op |-> "getStatus", result |-> st.status]
       /\ UNCHANGED <<now, registry, userPreferences, analytics, req, outcome, hist, recorded>>

\* POST /api/chat up to its first suspension inside routeAndRespond:
\* body validation, then analyzeAndRoute up to the selection call
PostChat(r, body) ==
    /\ req[r].pc = "idle"
    /\ IF ~body.parsable
       THEN /\ req' = [req EXCEPT ![r] = Done]
            /\ outcome' = [outcome EXCEPT ![r] = onError(BodyParseError)]
            /\ Unchecked
            /\ lastCall' = [op |-> "postChat", body |-> body, prompt |-> None]
            /\ UNCHANGED <<registry, hist>>
       ELSE IF validate(body) # None
       THEN /\ req' = [req EXCEPT ![r] = Done]
            /\ outcome' = [outcome EXCEPT ![r] = validate(body)[1]]
            /\ Unchecked
            /\ lastCall' = [op |-> "postChat", body |-> body, prompt |-> None]
            /\ UNCHANGED <<registry, hist>>
       ELSE LET trimmedMessage == body.message[1].trimmed
                a == analyzeAndRouteEntry(registry, userPreferences, requests, now,
                                          trimmedMessage, "default")
                calls == IF a.kind = "await" THEN 1 ELSE 0
            IN /\ req' = [req EXCEPT ![r] =
                            [@ EXCEPT !.pc = IF a.kind = "await" THEN "selecting" ELSE "dispatch",
                                      !.message = trimmedMessage,
                                      !.availableModels = a.availableModels,
                                      !.decision = a.decision]]
               /\ registry' = a.registry
               /\ hist' = [hist EXCEPT ![r] =
                            [Probed(@, a) EXCEPT
                                !.entryDenied = ~a.allowed,
                                !.selCalls = @ + calls,
                                !.priority = IF a.kind = "await"
                                             THEN Some(a.userPrefs.priority)
                                             ELSE None]]
               /\ Checked(a, calls)
               /\ UNCHANGED outcome
               /\ lastCall' = [op |-> "postChat", body |-> body,
                               prompt |-> IF a.kind = "await"
                                          THEN Some(createRouterPrompt(trimmedMessage,
                                                                       a.availableModels,
                                                                       a.userPrefs))
                                          ELSE None]
    /\ UNCHANGED <<now, userPreferences, analytics, recorded>>

\* The selection call returns or throws; analyzeAndRoute finishes
Selected(r, reply) ==
    /\ req[r].pc = "selecting"
    /\ LET a == analyzeAndRouteResume(registry, req[r].availableModels, reply)
       IN /\ req' = [req EXCEPT ![r] =
                        [@ EXCEPT !.pc = IF a.kind = "return" THEN "dispatch" ELSE "fallback",
                                  !.decision = a.decision]]
          /\ hist' = [hist EXCEPT ![r] = [@ EXCEPT !.selReply = reply.kind,
                                                   !.selection = Some(reply)]]
    /\ Unchecked
    /\ lastCall' = NoCall
    /\ UNCHANGED <<now, registry, userPreferences, analytics, outcome, recorded>>

\* routeAndRespond calls callSelectedModel(message, decision.selectedModel)
Dispatch(r) ==
    /\ req[r].pc = "dispatch"
    /\ LET c == callSelectedModelEntry(requests, now)
           calls == IF c.kind = "await" THEN 1 ELSE 0
       IN /\ req' = [req EXCEPT ![r] =
                        [@ EXCEPT !.pc = IF c.kind = "await" THEN "generating" ELSE "fallback",
                                  !.modelConfig = req[r].decision.selectedModel,
                                  !.startTime = now]]
          /\ hist' = [hist EXCEPT ![r] =
                        [Probed(@, c) EXCEPT !.dispatchDenied = ~c.allowed,
                                             !.chosen = req[r].decision.selectedModel.id,
                                             !.genCalls = @ + calls,
                                             !.genFailures = @ + (1 - calls)]]
          /\ Checked(c, calls)
    /\ lastCall' = NoCall
    /\ UNCHANGED <<now, registry, userPreferences, analytics, outcome, recorded>>

\* The generation call of the primary dispatch returns or throws
Generated(r, reply) ==
    /\ req[r].pc = "generating"
    /\ LET g == callSelectedModelResume(req[r].modelConfig, reply, req[r].startTime, now)
           s == routeAndRespondSuccess(analytics, userPreferences, req[r].message, "default",
                                       req[r].decision, g.response, now)
       IN IF g.kind = "return"
          THEN /\ req' = [req EXCEPT ![r] = Done]
               /\ analytics' = s.analytics
               /\ outcome' = [outcome EXCEPT ![r] = Reply(200, None, Some(s.response))]
               /\ hist' = [hist EXCEPT ![r].logs = @ \o Appended(analytics, s.analytics)]
               /\ recorded' = recorded \o Appended(analytics, s.analytics)
          ELSE /\ req' = [req EXCEPT ![r].pc = "fallback"]
               /\ hist' = [hist EXCEPT ![r].genFailures = @ + 1]
               /\ UNCHANGED <<analytics, outcome, recorded>>
    /\ Unchecked
    /\ lastCall' = NoCall
    /\ UNCHANGED <<now, registry, userPreferences>>

\* The catch handler of routeAndRespond calls callSelectedModel(message, fallbackModel)
FallbackDispatch(r) ==
    /\ req[r].pc = "fallback"
    /\ LET fallbackModel == getFastestModels(registry)[1]
           c == callSelectedModelEntry(requests, now)
           thrown == routeAndRespondFallbackFailure(c.error)
       IN /\ IF c.kind = "await"
             THEN /\ req' = [req EXCEPT ![r] =
                              [@ EXCEPT !.pc = "fbGenerating",
                                        !.modelConfig = fallbackModel,
                                        !.startTime = now]]
                  /\ hist' = [hist EXCEPT ![r] = [Probed(@, c) EXCEPT !.genCalls = @ + 1]]
                  /\ UNCHANGED outcome
             ELSE /\ req' = [req EXCEPT ![r] = Done]
                  /\ outcome' = [outcome EXCEPT ![r] = onError(thrown)]
                  /\ hist' = [hist EXCEPT ![r] =
                                [Probed(@, c) EXCEPT !.genFailures = @ + 1,
                                                     !.thrown = thrown]]
          /\ Checked(c, IF c.kind = "await" THEN 1 ELSE 0)
    /\ lastCall' = NoCall
    /\ UNCHANGED <<now, registry, userPreferences, analytics, recorded>>

\* FallbackGenerated whose failure re-enters the catch handler once more
FallbackGenerated_Retries(r, reply) ==
    /\ req[r].pc = "fbGenerating"
    /\ LET g == callSelectedModelResume(req[r].modelConfig, reply, req[r].startTime, now)
           s == routeAndRespondFallbackSuccess(analytics, req[r].modelConfig, req[r].message,
                                               g.response, now)
           thrown == routeAndRespondFallbackFailure(g.error)
       IN IF g.kind = "return"
          THEN /\ req' = [req EXCEPT ![r] = Done]
               /\ analytics' = s.analytics
               /\ outcome' = [outcome EXCEPT ![r] = Reply(200, None, Some(s.response))]
               /\ hist' = [hist EXCEPT ![r].logs = @ \o Appended(analytics, s.analytics)]
               /\ recorded' = recorded \o Appended(analytics, s.analytics)
          ELSE IF hist[r].genFailures < 2
          THEN /\ req' = [req EXCEPT ![r].pc = "fallback"]
               /\ hist' = [hist EXCEPT ![r].genFailures = @ + 1]
               /\ UNCHANGED <<analytics, outcome, recorded>>
          ELSE /\ req' = [req EXCEPT ![r] = Done]
               /\ outcome' = [outcome EXCEPT ![r] = onError(thrown)]
               /\ hist' = [hist EXCEPT ![r] =
                            [@ EXCEPT !.genFailures = @ + 1, !.thrown = thrown]]
               /\ UNCHANGED <<analytics, recorded>>
    /\ Unchecked
    /\ lastCall' = NoCall
    /\ UNCHANGED <<now, registry, userPreferences>>

\* The generation call of the fallback dispatch returns or throws
FallbackGenerated(r, reply) ==
    /\ req[r].pc = "fbGenerating"
    /\ LET g == callSelectedModelResume(req[r].modelConfig, reply, req[r].startTime, now)
           s == routeAndRespondFallbackSuccess(analytics, req[r].modelConfig, req[r].message,
                                               g.response, now)
           thrown == routeAndRespondFallbackFailure(g.error)
       IN IF g.kind = "return"
          THEN /\ req' = [req EXCEPT ![r] = Done]
               /\ analytics' = s.analytics
               /\ outcome' = [outcome EXCEPT ![r] = Reply(200, None, Some(s.response))]
               /\ hist' = [hist EXCEPT ![r].logs = @ \o Appended(analytics, s.analytics)]
               /\ recorded' = recorded \o Appended(analytics, s.analytics)
          ELSE /\ req' = [req EXCEPT ![r] = Done]
               /\ outcome' = [outcome EXCEPT ![r] = onError(thrown)]
               /\ hist' = [hist EXCEPT ![r] =
                            [@ EXCEPT !.genFailures = @ + 1, !.thrown = thrown]]
               /\ UNCHANGED <<analytics, recorded>>
    /\ Unchecked
    /\ lastCall' = NoCall
    /\ UNCHANGED <<now, registry, userPreferences>>

\* One request at a time, every input
Next ==
    \/ Tick
    \/ GetStatus
    \/ \E body \in Bodies : PostChat("r1", body)
    \/ \E reply \in SelectionReplies : Selected("r1", reply)
    \/ Dispatch("r1")
    \/ \E reply \in GenerationReplies : Generated("r1", reply)
    \/ FallbackDispatch("r1")
    \/ \E reply \in GenerationReplies : FallbackGenerated("r1", reply)

Spec == Init /\ [][Next]_vars

\* Concurrent requests, suspended at their await points, on a core of inputs
CoreBodies == {Body(TRUE, Some(Text(16, 16)))}

CoreSelectionReplies ==
    {SelectionReply("throws", "", "", None),
     SelectionReply("object", "deepseek/deepseek-r1:free", "x", Some(9))}

CoreGenerationReplies ==
    {GenerationReply("throws", None, None),
     GenerationReply("completion", Some("Hello"), Some(42))}

NextConcurrent ==
    \/ Tick
    \/ GetStatus
    \/ \E r \in Requests, body \in CoreBodies : PostChat(r, body)
    \/ \E r \in Requests, reply \in CoreSelectionReplies : Selected(r, reply)
    \/ \E r \in Requests : Dispatch(r)
    \/ \E r \in Requests, reply \in CoreGenerationReplies : Generated(r, reply)
    \/ \E r \in Requests : FallbackDispatch(r)
    \/ \E r \in Requests, reply \in CoreGenerationReplies : FallbackGenerated(r, reply)

SpecConcurrent == Init /\ [][NextConcurrent]_vars

\* Every started request is eventually resumed: a backend call returns or
\* throws, and a resolved promise's continuation runs
Resume(r) ==
    \/ \E reply \in SelectionReplies : Selected(r, reply)
    \/ Dispatch(r)
    \/ \E reply \in GenerationReplies : Generated(r, reply)
    \/ FallbackDispatch(r)
    \/ \E reply \in GenerationReplies : FallbackGenerated(r, reply)

FairSpec == Spec /\ WF_vars(Resume("r1"))

----------------------------------------------------------------------------
(* /api/analytics, and the tracker filling up *)

\* The tracker actions leave the router, the limiter and the store alone
TrackerOnly ==
    /\ Unchecked
    /\ UNCHANGED <<registry, userPreferences, req, outcome, hist>>

\* The model and the processing time of the k-th logged decision: one value
\* each while the log is far from its capacity, any of two from then on
EarlyModel(k) == IF k % 2 = 0 THEN AVAILABLE_MODELS[1] ELSE AVAILABLE_MODELS[4]
EarlyTime(k) == 100 + (k % 3)

LoggedModels(k) ==
    IF k <= MAX_DECISIONS_LOGGED - VariedBelow
    THEN {EarlyModel(k)}
    ELSE {AVAILABLE_MODELS[1], AVAILABLE_MODELS[4]}

LoggedTimes(k) ==
    IF k <= MAX_DECISIONS_LOGGED - VariedBelow THEN {EarlyTime(k)} ELSE {0, 2500}

\* routeAndRespond logs the decision of a request that got its response:
\* analytics.logRoutingDecision. The response of the k-th decision logged
\* since the last reset used k tokens; the clock, which the tracker reads
\* only to stamp the entry, is held.
LogRoutingDecision ==
    \E model \in LoggedModels(Len(recorded) + 1),
       processingTime \in LoggedTimes(Len(recorded) + 1) :
    LET k == Len(recorded) + 1
    IN /\ Len(recorded) < MAX_DECISIONS_LOGGED + MaxOver
       /\ analytics' = logRoutingDecision(analytics, 250, model.id, model.category, "x", 8,
                                          processingTime, k, 0, "balanced", now)
       /\ recorded' = Append(recorded,
                             DecisionLog(250, model.id, model.category, "x", 8,
                                         processingTime, k, 0, "balanced", now))
       /\ lastCall' = [op |-> "logRoutingDecision", model |-> model.id,
                       processingTime |-> processingTime]
       /\ UNCHANGED now
       /\ TrackerOnly

AnalyticsTypes == {None, Some("summary"), Some("full"), Some("usage"), Some("preferences"), Some("trend")}

\* GET /api/analytics?type=...
GetAnalytics(typeParam) ==
    LET type == IF typeParam = None \/ typeParam = Some("") THEN "summary" ELSE typeParam[1]
    IN /\ lastCall' =
            IF type = "summary"
            THEN [op |-> "getAnalyticsSummary", status |-> 200,
                  result |-> getAnalyticsSummary(analytics)]
            ELSE IF type = "full"
            THEN [op |-> "getAnalytics", status |-> 200, result |-> getAnalytics(analytics)]
            ELSE IF type = "usage"
            THEN [op |-> "getModelUsageStats", status |-> 200,
                  result |-> getModelUsageStats(analytics)]
            ELSE IF type = "preferences"
            THEN [op |-> "getPreferenceStats", status |-> 200,
                  result |-> getPreferenceStats(userPreferences)]
            ELSE [op |-> "getAnalyticsOfNoType", status |-> 400]
       /\ UNCHANGED <<now, analytics, recorded>>
       /\ TrackerOnly

\* DELETE /api/analytics
DeleteAnalytics ==
    /\ analytics' = resetAnalytics(analytics)
    /\ recorded' = <<>>
    /\ lastCall' = [op |-> "resetAnalytics", status |-> 200, discarded |-> Len(recorded)]
    /\ UNCHANGED now
    /\ TrackerOnly

NextAnalytics ==
    \/ LogRoutingDecision
    \/ \E type \in AnalyticsTypes : GetAnalytics(type)
    \/ DeleteAnalytics

SpecAnalytics == Init /\ [][NextAnalytics]_vars

\* The tracker of SpecAnalytics when n decisions, n >= 2, have been logged
\* into the empty tracker and the arguments have not yet varied: the k-th
\* entry, the log and the entries recorded, the counters and the mean
EarlyEntry(k) ==
    DecisionLog(250, EarlyModel(k).id, EarlyModel(k).category, "x", 8, EarlyTime(k), k, 0,
                "balanced", 0)

EarlyRecorded(n) == [k \in 1..n |-> EarlyEntry(k)]

EarlySumOfTimes(n) == 100 * n + 3 * (n \div 3) + (IF n % 3 = 2 THEN 3 ELSE n % 3)

EarlyAnalytics(n) ==
    [totalRequests |-> n,
     modelUsage |-> <<[key |-> EarlyModel(1).id, count |-> (n + 1) \div 2],
                      [key |-> EarlyModel(2).id, count |-> n \div 2]>>,
     categoryUsage |-> <<[key |-> EarlyModel(1).category, count |-> (n + 1) \div 2],
                         [key |-> EarlyModel(2).category, count |-> n \div 2]>>,
     averageProcessingTime |-> Rat(EarlySumOfTimes(n), n),
     totalTokensUsed |-> (n * (n + 1)) \div 2,
     routingDecisions |-> [i \in 1..n |-> EarlyEntry(n + 1 - i)]]

\* SpecAnalytics passes through that state: an invariant of SpecAnalytics
EarlyStateReached ==
    (lastCall.op = "logRoutingDecision" /\ Len(recorded) >= 2
     /\ Len(recorded) <= MAX_DECISIONS_LOGGED - VariedBelow)
    => /\ analytics = EarlyAnalytics(Len(recorded))
       /\ recorded = EarlyRecorded(Len(recorded))
       /\ now = 0

\* The tracker from the last state in which the arguments have not varied
InitNearCapacity ==
    /\ now = 0
    /\ requests = NoWindow
    /\ registry = AVAILABLE_MODELS
    /\ userPreferences = [u \in {} |-> DEFAULT_ROUTING_PREFERENCES]
    /\ analytics = EarlyAnalytics(MAX_DECISIONS_LOGGED - VariedBelow)
    /\ req = [r \in Requests |-> Idle]
    /\ outcome = [r \in Requests |-> NoReply]
    /\ hist = [r \in Requests |-> NoHistory]
    /\ lastProbe = "none"
    /\ window = NoWindowYet
    /\ lastCall = [op |-> "logRoutingDecision",
                   model |-> EarlyModel(MAX_DECISIONS_LOGGED - VariedBelow).id,
                   processingTime |-> EarlyTime(MAX_DECISIONS_LOGGED - VariedBelow)]
    /\ recorded = EarlyRecorded(MAX_DECISIONS_LOGGED - VariedBelow)

SpecNearCapacity == InitNearCapacity /\ [][NextAnalytics]_vars

----------------------------------------------------------------------------
(* /api/preferences, and the candidate filter that reads the store *)

\* searchParams.get('userId') || 'default', body.userId || 'default'
OrDefaultUser(userId) == IF userId = None \/ userId = Some("") THEN "default" ELSE userId[1]

UserIdParams == {None, Some(""), Some("alice")}

CodingModelIds ==
    <<"qwen/qwen3-coder:free", "agentica-org/deepcoder-14b-preview:free",
      "qwen/qwen-2.5-coder-32b-instruct:free">>

\* The Partial<RoutingPreferences> objects a client sends
Partials ==
    {[priority |-> pr] : pr \in {"auto", "cost", "latency", "quality", "balanced", "speed"}}
    \cup {[allowedCategories |-> c] : c \in {<<>>, <<"coding">>, <<"vision">>}}
    \cup {[excludedModels |-> e] : e \in {<<>>, CodingModelIds}}
    \cup {[priority |-> "speed", allowedCategories |-> <<"coding">>]}
    \cup {[f \in {} |-> 0]}

PreferencesBody(parsable, userId, preferences) ==
    [parsable |-> parsable, userId |-> userId, preferences |-> preferences]

PreferencesBodies ==
    {PreferencesBody(FALSE, None, None)}
    \cup {PreferencesBody(TRUE, u, None) : u \in UserIdParams}
    \cup {PreferencesBody(TRUE, u, Some(partial)) : u \in UserIdParams, partial \in Partials}

PreferencesRequiredError == <<"Preferences", "object", "is", "required">>

\* The store actions leave the router and the limiter alone
StoreOnly ==
    /\ Unchecked
    /\ UNCHANGED <<now, registry, analytics, req, outcome, hist, recorded>>

\* GET /api/preferences
GetPreferences(userIdParam) ==
    LET userId == OrDefaultUser(userIdParam)
    IN /\ lastCall' = [op |-> "getUserPreferences", userId |-> userId, status |-> 200,
                       result |-> getUserPreferences(userPreferences, userId)]
       /\ UNCHANGED userPreferences
       /\ StoreOnly

\* POST /api/preferences
PostPreferences(body) ==
    LET userId == OrDefaultUser(body.userId)
        set == setUserPreferences(userPreferences, userId, body.preferences[1])
    IN /\ IF ~body.parsable
          THEN /\ lastCall' = [op |-> "postPreferences", userId |-> "", status |-> 400,
                               error |-> BodyParseError]
               /\ UNCHANGED userPreferences
          ELSE IF body.preferences = None
          THEN /\ lastCall' = [op |-> "postPreferences", userId |-> userId, status |-> 400,
                               error |-> PreferencesRequiredError]
               /\ UNCHANGED userPreferences
          ELSE /\ lastCall' = [op |-> "setUserPreferences", userId |-> userId,
                               partial |-> body.preferences[1],
                               status |-> IF set.kind = "return" THEN 200 ELSE 400,
                               result |-> set.result, error |-> set.error]
               /\ userPreferences' = set.store
       /\ StoreOnly

\* DELETE /api/preferences
DeletePreferences(userIdParam) ==
    LET userId == OrDefaultUser(userIdParam)
        reset == resetUserPreferences(userPreferences, userId)
    IN /\ lastCall' = [op |-> "resetUserPreferences", userId |-> userId, status |-> 200,
                       result |-> reset.result]
       /\ userPreferences' = reset.store
       /\ StoreOnly

\* GET /api/analytics?type=preferences
GetPreferenceStats == GetAnalytics(Some("preferences"))

\* The candidate lists analyzeAndRoute hands to applyUserPreferences: the
\* models whose context window suffices for a message (minContextNeeded is
\* at most MAX_CONTEXT_FALLBACK, which six models of the registry reach)
ContextNeeds == {minContextNeeded(n) : n \in {16, 80000, 140000, 400000}}

CandidateLists ==
    {getModelsByContextRequirement(AVAILABLE_MODELS, c) : c \in ContextNeeds}

\* analyzeAndRoute's filtering step for the user's stored preferences
ApplyUserPreferences(models, userIdParam) ==
    LET userId == OrDefaultUser(userIdParam)
        userPrefs == getUserPreferences(userPreferences, userId)
    IN /\ lastCall' = [op |-> "applyUserPreferences", userId |-> userId,
                       models |-> models, preferences |-> userPrefs,
                       result |-> IF userPrefs.priority # "auto"
                                  THEN applyUserPreferences(models, userPrefs)
                                  ELSE models]
       /\ UNCHANGED userPreferences
       /\ StoreOnly

NextPreferences ==
    \/ \E u \in UserIdParams : GetPreferences(u)
    \/ \E body \in PreferencesBodies : PostPreferences(body)
    \/ \E u \in UserIdParams : DeletePreferences(u)
    \/ GetPreferenceStats
    \/ \E models \in CandidateLists, u \in UserIdParams : ApplyUserPreferences(models, u)

SpecPreferences == Init /\ [][NextPreferences]_vars

----------------------------------------------------------------------------
(* POST /api/chat while POST and DELETE /api/preferences change the record *)
(* of the user the chat route routes for                                   *)

\* The route calls routeAndRespond(trimmedMessage): userId is 'default'
RoutedUser == "default"

RoutingPartials ==
    {[priority |-> "quality"], [allowedCategories |-> <<"coding">>],
     [allowedCategories |-> <<"vision">>], [excludedModels |-> CodingModelIds]}

RoutingPreferencesBodies == {PreferencesBody(TRUE, None, Some(p)) : p \in RoutingPartials}

\* A short message and the longest one the route lets through
RoutedBodies ==
    {Body(TRUE, Some(Text(18, 16))),
     Body(TRUE, Some(Text(MAX_MESSAGE_LENGTH, MAX_MESSAGE_LENGTH)))}

\* The reply of the selection backend is whatever the router model wrote: a
\* model of the candidate list, a model of the registry the user excluded,
\* an id of no model, no modelId at all; a confidence in range, 0, out of
\* range, or none
RoutedIds ==
    {"deepseek/deepseek-r1:free", "qwen/qwen3-coder:free", "no-such/model", ""}

RoutedSelectionReplies ==
    {SelectionReply(k, "", "", None) : k \in {"throws", "nocontent", "unparsable", "null"}}
    \cup {SelectionReply("object", id, "x", c) :
            id \in RoutedIds, c \in {None, Some(0), Some(9), Some(15)}}

RoutedGenerationReplies ==
    {GenerationReply("throws", None, None),
     GenerationReply("completion", Some("Hello"), None),
     GenerationReply("completion", Some("Hello"), Some(42))}

NextRouting ==
    \/ \E body \in RoutingPreferencesBodies : PostPreferences(body)
    \/ DeletePreferences(None)
    \/ \E body \in RoutedBodies : PostChat("r1", body)
    \/ \E reply \in RoutedSelectionReplies : Selected("r1", reply)
    \/ Dispatch("r1")
    \/ \E reply \in RoutedGenerationReplies : Generated("r1", reply)
    \/ FallbackDispatch("r1")
    \/ \E reply \in RoutedGenerationReplies : FallbackGenerated("r1", reply)

SpecRouting == Init /\ [][NextRouting]_vars

----------------------------------------------------------------------------
(* The context estimate of analyzeAndRoute, as a function of the message *)

\* Lengths at which the estimate changes its shape (the multiplier sets in
\* above 4000 characters, the cap at 200000) or meets a context window of
\* the registry (8192, 32768, 65536, 96000)
BoundaryLengths ==
    {0, 1, 3, 4, 5, 16, 3999, 4000, 4001, 4004, MAX_MESSAGE_LENGTH, 16384, 16385, 65536,
     65537, 131072, 131073, 192000, 192001, 199999, 200000, 200001}

ContextLengths == BoundaryLengths \cup {n * LengthStride : n \in 1..LengthSteps}

\* analyzeAndRoute estimates the context of a message and takes the
\* candidates from the registry
EstimateContext(message) ==
    LET c == candidatesByContext(registry, message)
    IN /\ registry' = c.registry
       /\ lastCall' = [op |-> "getModelsByContextRequirement", message |-> message,
                       minContextNeeded |-> c.minContextNeeded,
                       models |-> c.availableModels]
       /\ Unchecked
       /\ UNCHANGED <<now, userPreferences, analytics, req, outcome, hist, recorded>>

NextContext == \E message \in ContextLengths : EstimateContext(message)

SpecContext == Init /\ [][NextContext]_vars

----------------------------------------------------------------------------
(* Rate limiter properties *)

WindowRunning == window.open /\ now <= window.start + RATE_LIMIT_WINDOW_MS

\* C1: within one window, once MAX_REQUESTS_PER_MINUTE calls of
\* canMakeRequest have returned true, every further call made before the
\* window expires returns false: no window ever sees one admission more, and
\* a call made in a running window that has all its admissions is denied.
C1_AdmissionBound ==
    /\ [](window.admits <= MAX_REQUESTS_PER_MINUTE)
    /\ [][(WindowRunning /\ window.admits = MAX_REQUESTS_PER_MINUTE /\ lastProbe' # "none")
            => (lastProbe' = "deny" /\ window' = window)]_vars

C1_Witness ==
    /\ WindowRunning
    /\ window.admits = MAX_REQUESTS_PER_MINUTE
    /\ lastProbe = "deny"

\* C9: a canMakeRequest made strictly later than the reset time of the
\* window replaces the window by {count: 1, resetTime: now + windowMs} and
\* returns true; from then on a check is denied only when the new window has
\* had all MAX_REQUESTS_PER_MINUTE admissions (the first one and
\* MAX_REQUESTS_PER_MINUTE - 1 further ones).
C9_WindowReset ==
    /\ [][("global" \in DOMAIN requests /\ now > requests["global"].resetTime
           /\ lastProbe' # "none")
            => /\ lastProbe' # "deny"
               /\ requests' = Entry(1, now + RATE_LIMIT_WINDOW_MS)
               /\ window'.admits = 1]_vars
    /\ [](lastProbe = "deny" => window.admits = MAX_REQUESTS_PER_MINUTE)
    /\ []("global" \in DOMAIN requests =>
            /\ requests["global"].count = window.admits
            /\ requests["global"].resetTime = window.start + RATE_LIMIT_WINDOW_MS)

\* a second window, opened after the first one expired, that has been filled
C9_Witness ==
    /\ window.open
    /\ window.start > RATE_LIMIT_WINDOW_MS
    /\ window.admits = MAX_REQUESTS_PER_MINUTE
    /\ lastProbe = "deny"

\* C10: a canMakeRequest that returns false leaves the rate limiter's map as
\* it was: neither count nor resetTime changes.
C10_DeniedKeepsState ==
    [][lastProbe' = "deny" => requests' = requests]_vars

C10_Witness ==
    /\ lastProbe = "deny"
    /\ requests = Entry(MAX_REQUESTS_PER_MINUTE, RATE_LIMIT_WINDOW_MS)
    /\ now = RATE_LIMIT_WINDOW_MS

\* C11: a getStatus call reports isLimited = false exactly when its own
\* canMakeRequest was admitted, and then it has used one admission of the
\* window (the count is one more, or a new window starts with count 1); when
\* it reports isLimited = true the limiter is as it was. The other fields are
\* read before the probe.
C11_StatusProbeConsumes ==
    [][lastCall'.op = "getStatus" =>
        /\ lastCall'.result.isLimited = (lastProbe' = "deny")
        /\ lastCall'.result.maxRequests = MAX_REQUESTS_PER_MINUTE
        /\ lastCall'.result.currentCount = IF WindowRunning THEN window.admits ELSE 0
        /\ IF lastCall'.result.isLimited
           THEN requests' = requests /\ window' = window
           ELSE IF WindowRunning
           THEN /\ requests' = Entry(requests["global"].count + 1, requests["global"].resetTime)
                /\ window'.admits = window.admits + 1
                /\ window'.start = window.start
           ELSE /\ requests' = Entry(1, now + RATE_LIMIT_WINDOW_MS)
                /\ window'.admits = 1
                /\ window'.start = now]_vars

\* a status read in a running window that was not limited and took a slot
C11_Witness ==
    /\ lastCall.op = "getStatus"
    /\ ~lastCall.result.isLimited
    /\ lastCall.result.currentCount = 7
    /\ requests["global"].count = 8

----------------------------------------------------------------------------
(* Router properties *)

\* The first model of the declared registry whose speed is fast
FirstFastest ==
    AVAILABLE_MODELS[CHOOSE i \in DOMAIN AVAILABLE_MODELS :
                        /\ AVAILABLE_MODELS[i].speed = "fast"
                        /\ \A j \in 1..(i - 1) : AVAILABLE_MODELS[j].speed # "fast"]

ModelNamed(name) == CHOOSE m \in Range(AVAILABLE_MODELS) : m.name = name

BackendCalls(h) == h.selCalls + h.genCalls

\* C2: under any interleaving of concurrent requests, the outbound backend
\* calls (selection and generation) issued inside one window never exceed
\* the admissions of that window, which never exceed MAX_REQUESTS_PER_MINUTE;
\* and a request issues a call only in a step in which its own
\* canMakeRequest returned true (no suspension between check and call).
C2_CallsWithinLimit ==
    /\ [](window.calls <= window.admits /\ window.admits <= MAX_REQUESTS_PER_MINUTE)
    /\ [][\A r \in Requests :
            BackendCalls(hist'[r]) # BackendCalls(hist[r])
            => /\ BackendCalls(hist'[r]) = BackendCalls(hist[r]) + 1
               /\ hist'[r].slots = hist[r].slots + 1
               /\ lastProbe' \notin {"none", "deny"}
               /\ window'.calls <= window'.admits]_vars

\* both requests are suspended on a backend call, the window is full, and
\* every admission of the window went to one of their calls or to a probe
C2_Witness ==
    /\ \A r \in Requests : req[r].pc \in {"generating", "fbGenerating"}
    /\ \E r \in Requests : hist[r].dispatchDenied
    /\ window.admits = MAX_REQUESTS_PER_MINUTE
    /\ window.calls >= 3

\* C3 (as claimed): a request that arrives while the limiter is at capacity
\* makes no selection call and is answered successfully by the first fastest
\* model, with the rate-limit-exceeded reasoning.
C3_ScenarioC ==
    \A r \in Requests :
        (req[r].pc = "done" /\ hist[r].entryDenied)
        => /\ hist[r].selCalls = 0
           /\ outcome[r].status = 200
           /\ outcome[r].response # None
           /\ outcome[r].response[1].model = FirstFastest.name
           /\ outcome[r].response[1].reasoning = RateLimitReasoning

\* C4 (as claimed): when the admission check of the primary dispatch is
\* denied, POST answers 429 with Retry-After 60.
C4_DispatchDenied429 ==
    \A r \in Requests :
        (req[r].pc = "done" /\ hist[r].dispatchDenied)
        => /\ outcome[r].status = 429
           /\ outcome[r].retryAfter = Some(RETRY_AFTER_SECONDS)

SelectionFailures == {"throws", "nocontent", "unparsable", "null"}

\* C5: whatever the selection call does, analyzeAndRoute returns a decision
\* for a registry model and the request goes on to dispatch; when the
\* selection step raised an exception the decision is the first fastest
\* model with confidence 0.2.
C5_SelectionAbsorbed ==
    [][\A r \in Requests :
        (req[r].pc = "selecting" /\ req'[r].pc # "selecting")
        => /\ req'[r].pc = "dispatch"
           /\ hist'[r].selReply # "none"
           /\ req'[r].decision.selectedModel \in Range(AVAILABLE_MODELS)
           /\ (hist'[r].selReply \in SelectionFailures
               => /\ req'[r].decision.selectedModel = FirstFastest
                  /\ req'[r].decision.confidence = 2)]_vars

C5_Witness ==
    \E r \in Requests :
        /\ req[r].pc = "generating"
        /\ hist[r].selReply = "unparsable"
        /\ req[r].decision.confidence = 2
        /\ req[r].modelConfig = FirstFastest

\* C6: an invocation issues at most one selection call and at most two
\* generation calls, the second one to the first fastest model; the
\* selection call has returned before a generation call is issued; the
\* fallback path issues no selection call; and, the backend calls returning
\* or throwing, the invocation ends (no request stays in flight for ever)
\* with a response or the terminal error.
C6_SingleRetry ==
    /\ [](\A r \in Requests :
            /\ hist[r].selCalls <= 1
            /\ hist[r].genCalls <= 2
            /\ (hist[r].genCalls > 0 /\ hist[r].selCalls = 1 => hist[r].selReply # "none")
            /\ (req[r].pc = "fbGenerating" => req[r].modelConfig = FirstFastest))
    /\ [][\A r \in Requests :
            req[r].pc \in {"fallback", "fbGenerating"}
            => hist'[r].selCalls = hist[r].selCalls]_vars
    /\ [](\A r \in Requests :
            (req[r].pc = "done" /\ hist[r].checks > 0)
            => \/ outcome[r].response # None /\ hist[r].thrown = <<>>
               \/ outcome[r].response = None /\ hist[r].thrown = AllFailedError)
    /\ <>[](\A r \in Requests : req[r].pc \in {"idle", "done"})

C6_Witness ==
    \E r \in Requests :
        /\ req[r].pc = "done"
        /\ hist[r].selCalls = 1
        /\ hist[r].genCalls = 2
        /\ hist[r].thrown = AllFailedError

\* C7: when the dispatch to the chosen model fails and the fallback dispatch
\* fails too, routeAndRespond throws the one terminal error, returns no
\* response, and POST answers 503; it throws in no other case.
C7_ScenarioD ==
    \A r \in Requests :
        /\ (req[r].pc = "done" /\ hist[r].genFailures = 2)
           => /\ hist[r].thrown = AllFailedError
              /\ outcome[r].response = None
              /\ outcome[r].status = 503
        /\ (hist[r].thrown # <<>> => hist[r].genFailures = 2)

C7_Witness ==
    \E r \in Requests :
        /\ req[r].pc = "done"
        /\ hist[r].genCalls = 2
        /\ hist[r].genFailures = 2
        /\ outcome[r].status = 503

\* C8: an invocation that returns a response has appended exactly one
\* analytics entry, for the model whose display name the response carries
\* (the chosen model when the primary dispatch succeeded, the first fastest
\* model on the fallback path); an invocation that has not returned a
\* response, or that ended in the terminal error, has appended none.
C8_OnlySuccessLogged ==
    /\ \A r \in Requests :
        IF req[r].pc = "done" /\ outcome[r].status = 200
        THEN /\ Len(hist[r].logs) = 1
             /\ hist[r].logs[1].selectedModel = ModelNamed(outcome[r].response[1].model).id
             /\ hist[r].logs[1].selectedModel =
                    IF hist[r].genFailures = 0 THEN hist[r].chosen ELSE FirstFastest.id
             /\ \E i \in DOMAIN analytics.routingDecisions :
                    analytics.routingDecisions[i] = hist[r].logs[1]
        ELSE hist[r].logs = <<>>
    /\ analytics.totalRequests =
            Cardinality({r \in Requests : req[r].pc = "done" /\ outcome[r].status = 200})
    /\ Len(analytics.routingDecisions) = analytics.totalRequests

\* a response given by the fallback after the chosen model failed
C8_Witness ==
    \E r \in Requests :
        /\ req[r].pc = "done"
        /\ outcome[r].status = 200
        /\ hist[r].genFailures = 1
        /\ hist[r].chosen # FirstFastest.id
        /\ Len(hist[r].logs) = 1

----------------------------------------------------------------------------
(* Analytics properties *)

Log == analytics.routingDecisions

\* The sum of the processing times of recorded[from .. to]
RECURSIVE SumOfTimes(_, _)
SumOfTimes(from, to) ==
    IF from > to THEN 0
    ELSE IF from = to THEN recorded[from].processingTime
    ELSE SumOfTimes(from, (from + to) \div 2) + SumOfTimes((from + to) \div 2 + 1, to)

\* C16: totalRequests is the number of logRoutingDecision calls made since
\* the last reset, however these are interleaved with reads and resets, and
\* getAnalyticsSummary reports that number.
C16_TotalRequests ==
    /\ [](analytics.totalRequests = Len(recorded))
    /\ [](lastCall.op = "getAnalyticsSummary"
            => lastCall.result.totalRequests = Len(recorded))
    /\ [][lastCall'.op = "logRoutingDecision"
            => analytics'.totalRequests = analytics.totalRequests + 1]_vars

\* a summary read after more decisions than the log can hold
C16_Witness ==
    /\ lastCall.op = "getAnalyticsSummary"
    /\ lastCall.result.totalRequests = MAX_DECISIONS_LOGGED + MaxOver
    /\ Len(Log) = MAX_DECISIONS_LOGGED

\* C17: the log never holds more than MAX_DECISIONS_LOGGED entries; it holds
\* the most recent decisions, newest first; a decision logged when the log is
\* full drops the entry at the end of the log, the oldest one, and nothing
\* else; and the recentDecisions of a summary are the first min(10, length)
\* entries of the log.
C17_BoundedFifoLog ==
    /\ [](/\ Len(Log) <= MAX_DECISIONS_LOGGED
          /\ Len(Log) = Min(Len(recorded), MAX_DECISIONS_LOGGED)
          /\ \A i \in 1..Len(Log) : Log[i] = recorded[Len(recorded) + 1 - i])
    /\ [][(lastCall'.op = "logRoutingDecision" /\ Len(Log) = MAX_DECISIONS_LOGGED)
            => /\ Len(Log') = MAX_DECISIONS_LOGGED
               /\ Log'[1] = recorded'[Len(recorded')]
               /\ \A i \in 2..MAX_DECISIONS_LOGGED : Log'[i] = Log[i - 1]]_vars
    /\ [](lastCall.op = "getAnalyticsSummary"
            => /\ Len(lastCall.result.recentDecisions) = Min(10, Len(Log))
               /\ \A i \in 1..Min(10, Len(Log)) :
                    lastCall.result.recentDecisions[i] = recorded[Len(recorded) + 1 - i])

\* a summary read after entries have been dropped; the response of the k-th
\* decision used k tokens
C17_Witness ==
    /\ lastCall.op = "getAnalyticsSummary"
    /\ Len(recorded) = MAX_DECISIONS_LOGGED + MaxOver
    /\ Len(Log) = MAX_DECISIONS_LOGGED
    /\ Log[MAX_DECISIONS_LOGGED].tokensUsed = MaxOver + 1
    /\ lastCall.result.recentDecisions[1].tokensUsed = MAX_DECISIONS_LOGGED + MaxOver
    /\ Len(lastCall.result.recentDecisions) = 10

C19_ResetClearsAll ==
    /\ [][lastCall'.op = "resetAnalytics"
            => /\ analytics'.totalRequests = 0
               /\ analytics'.averageProcessingTime = [num |-> 0, den |-> 1]
               /\ analytics'.totalTokensUsed = 0
               /\ analytics'.modelUsage = <<>>
               /\ analytics'.categoryUsage = <<>>
               /\ analytics'.routingDecisions = <<>>]_vars
    /\ [][(lastCall.op = "resetAnalytics" /\ lastCall'.op = "getAnalyticsSummary")
            => /\ lastCall'.result.totalRequests = 0
               /\ lastCall'.result.mostUsedModel = None
               /\ lastCall'.result.mostUsedCategory = None
               /\ lastCall'.result.averageProcessingTime = 0
               /\ lastCall'.result.totalTokensUsed = 0
               /\ lastCall'.result.recentDecisions = <<>>]_vars
    /\ [][(lastCall.op = "resetAnalytics" /\ lastCall'.op = "logRoutingDecision")
            => /\ analytics'.totalRequests = 1
               /\ analytics'.averageProcessingTime =
                    [num |-> lastCall'.processingTime, den |-> 1]
               /\ analytics'.modelUsage = <<[key |-> lastCall'.model, count |-> 1]>>
               /\ Len(analytics'.categoryUsage) = 1
               /\ Len(analytics'.routingDecisions) = 1]_vars

\* a reset of a tracker whose log was full
C19_Witness ==
    /\ lastCall.op = "resetAnalytics"
    /\ lastCall.discarded = MAX_DECISIONS_LOGGED + MaxOver
    /\ analytics = EmptyAnalytics
    /\ recorded = <<>>

----------------------------------------------------------------------------
(* Preferences properties *)

PreferenceFields ==
    {"priority", "maxLatency", "minQuality", "allowedCategories", "excludedModels"}

\* What the store holds for a user, the default record standing for no entry
Held(store, u) == IF u \in DOMAIN store THEN store[u] ELSE DEFAULT_ROUTING_PREFERENCES

SetSucceeded(call) == call.op = "setUserPreferences" /\ call.status = 200
SetFailed(call) == call.op = "setUserPreferences" /\ call.status # 200

\* C12: after a setUserPreferences(u, partial) that succeeds, the record
\* getUserPreferences(u) returns has, field by field, the value of partial
\* where partial names the field and the value u's record had before (the
\* default's when u had none) elsewhere; it is a full record, it is stored
\* under u, it is what the call returned and what a get that follows
\* returns; the other users' records are untouched.
C12_SetThenGet ==
    /\ [][SetSucceeded(lastCall') =>
            LET u == lastCall'.userId
                partial == lastCall'.partial
                before == Held(userPreferences, u)
                after == getUserPreferences(userPreferences', u)
            IN /\ u \in DOMAIN userPreferences'
               /\ DOMAIN after = PreferenceFields
               /\ \A f \in PreferenceFields :
                    after[f] = IF f \in DOMAIN partial THEN partial[f] ELSE before[f]
               /\ lastCall'.result = Some(after)
               /\ \A v \in (DOMAIN userPreferences \cup DOMAIN userPreferences') \ {u} :
                    /\ v \in DOMAIN userPreferences /\ v \in DOMAIN userPreferences'
                    /\ userPreferences'[v] = userPreferences[v]]_vars
    /\ [][(SetSucceeded(lastCall) /\ lastCall'.op = "getUserPreferences"
            /\ lastCall'.userId = lastCall.userId)
           => Some(lastCall'.result) = lastCall.result]_vars

\* a set of one field onto a stored record that differs from the default in
\* another field
C12_Witness ==
    /\ SetSucceeded(lastCall)
    /\ lastCall.userId = "alice"
    /\ DOMAIN lastCall.partial = {"excludedModels"}
    /\ userPreferences["alice"].excludedModels = CodingModelIds
    /\ userPreferences["alice"].priority = "quality"
    /\ userPreferences["alice"].allowedCategories = <<"coding">>
    /\ "default" \in DOMAIN userPreferences

\* The priority values that are no priority mode at all
Unrecognized(priority) == priority \notin StatsPriorities

\* C13: a setUserPreferences whose partial carries an unrecognized priority
\* fails with the validation error, POST /api/preferences answers 400, and
\* the store is as it was: every user's getUserPreferences returns what it
\* returned before, also in a get that follows; the store changes in no
\* failed set.
C13_InvalidPriorityRejected ==
    /\ [][(lastCall'.op = "setUserPreferences" /\ "priority" \in DOMAIN lastCall'.partial
            /\ Unrecognized(lastCall'.partial.priority))
           => /\ lastCall'.status = 400
              /\ lastCall'.result = None
              /\ lastCall'.error = InvalidPriorityError(lastCall'.partial.priority)
              /\ userPreferences' = userPreferences
              /\ \A v \in {"default", "alice"} :
                    getUserPreferences(userPreferences', v) = Held(userPreferences, v)]_vars
    /\ [][SetFailed(lastCall') => userPreferences' = userPreferences]_vars
    /\ [][(SetFailed(lastCall) /\ lastCall'.op = "getUserPreferences")
           => lastCall'.result = Held(userPreferences, lastCall'.userId)]_vars

\* the rejected partial also carried a valid field, and the user had a record
C13_Witness ==
    /\ SetFailed(lastCall)
    /\ lastCall.partial = [priority |-> "speed", allowedCategories |-> <<"coding">>]
    /\ lastCall.userId = "alice"
    /\ "alice" \in DOMAIN userPreferences
    /\ userPreferences["alice"].priority = "latency"
    /\ userPreferences["alice"].allowedCategories = <<"vision">>

DataModelPriorities == {"auto", "latency", "quality", "balanced"}

\* C14 (as claimed): a setUserPreferences(u, {priority: p}) with p one of
\* auto, latency, quality, balanced succeeds, and getUserPreferences(u) then
\* returns priority p.
C14_AllModesAccepted ==
    [][(lastCall'.op = "setUserPreferences" /\ "priority" \in DOMAIN lastCall'.partial
        /\ lastCall'.partial.priority \in DataModelPriorities)
       => /\ lastCall'.status = 200
          /\ getUserPreferences(userPreferences', lastCall'.userId).priority
                = lastCall'.partial.priority]_vars

\* C15: after resetUserPreferences(u) the store has no entry for u,
\* getUserPreferences(u) returns exactly the default record (now and in a
\* get that follows), so does the call itself, the other users' entries are
\* as they were, and getPreferenceStats counts the stored entries only;
\* getUserPreferences always returns a full record.
C15_ResetRestoresDefault ==
    /\ [][lastCall'.op = "resetUserPreferences" =>
            LET u == lastCall'.userId
            IN /\ u \notin DOMAIN userPreferences'
               /\ getUserPreferences(userPreferences', u) = DEFAULT_ROUTING_PREFERENCES
               /\ lastCall'.result = DEFAULT_ROUTING_PREFERENCES
               /\ DOMAIN userPreferences' = DOMAIN userPreferences \ {u}
               /\ \A v \in DOMAIN userPreferences' :
                    userPreferences'[v] = userPreferences[v]]_vars
    /\ [][(lastCall.op = "resetUserPreferences" /\ lastCall'.op = "getUserPreferences"
            /\ lastCall'.userId = lastCall.userId)
           => lastCall'.result = DEFAULT_ROUTING_PREFERENCES]_vars
    /\ [][(lastCall.op = "resetUserPreferences" /\ lastCall'.op = "getPreferenceStats")
           => /\ lastCall'.result.totalUsers = Cardinality(DOMAIN userPreferences \ {lastCall.userId})
              /\ lastCall'.result.totalUsers = Cardinality(DOMAIN userPreferences)]_vars
    /\ [](lastCall.op = "getUserPreferences" => DOMAIN lastCall.result = PreferenceFields)

\* a reset of a user who had a record of their own, another user keeping theirs
C15_Witness ==
    /\ lastCall.op = "resetUserPreferences"
    /\ lastCall.userId = "default"
    /\ DOMAIN userPreferences = {"alice"}
    /\ userPreferences["alice"].priority = "latency"
    /\ userPreferences["alice"].allowedCategories = <<"coding">>

\* The models of a list that pass both filters of a preferences record
Survivors(models, preferences) ==
    {m \in Range(models) :
        /\ m.category \in Range(preferences.allowedCategories)
        /\ m.id \notin Range(preferences.excludedModels)}

\* C20: with a priority other than auto and a non-empty allow-list, the
\* candidates returned are the models of the input that are in an allowed
\* category and not excluded, in the input's order, each of them in an
\* allowed category; when no model of the input is, the input list itself
\* is returned.
C20_AllowListFilter ==
    [](lastCall.op = "applyUserPreferences" =>
        LET in == lastCall.models
            out == lastCall.result
            prefs == lastCall.preferences
        IN (prefs.priority # "auto" /\ Len(prefs.allowedCategories) > 0)
           => IF Survivors(in, prefs) = {}
              THEN out = in
              ELSE /\ \A i \in DOMAIN out : out[i].category \in Range(prefs.allowedCategories)
                   /\ Range(out) = Survivors(in, prefs)
                   /\ out = Filter(in, Range(out)))

\* the allow-list admits models of the input, and the exclude-list removes
\* every one of them: the input comes back
C20_Witness ==
    /\ lastCall.op = "applyUserPreferences"
    /\ lastCall.preferences.allowedCategories = <<"coding">>
    /\ lastCall.preferences.excludedModels = CodingModelIds
    /\ Len(lastCall.models) = 6
    /\ lastCall.result = lastCall.models

----------------------------------------------------------------------------
(* Routing properties *)

\* The models of a list that a preferences record lets through: in an allowed
\* category when it allows some, and not excluded
Passing(models, preferences) ==
    {m \in Range(models) :
        /\ (Len(preferences.allowedCategories) > 0
            => m.category \in Range(preferences.allowedCategories))
        /\ m.id \notin Range(preferences.excludedModels)}

\* The candidates before the preference filters: the models of the declared
\* registry whose context window suffices for the message
ContextQualified(message) ==
    Filter(AVAILABLE_MODELS,
           {m \in Range(AVAILABLE_MODELS) : m.contextWindow >= minContextNeeded(message)})

\* C21: a selection call is issued only with a non-empty candidate list;
\* the user's priority not being auto, the list holds no model the user's
\* record excludes (it is the context-qualified models the record lets
\* through), unless the record lets none through, and then it is the whole
\* context-qualified list.
C21_CandidatesNeverEmpty ==
    /\ [](\A r \in Requests : req[r].pc = "selecting" => Len(req[r].availableModels) > 0)
    /\ [][\A r \in Requests :
            hist'[r].selCalls # hist[r].selCalls =>
                LET prefs == getUserPreferences(userPreferences, RoutedUser)
                    candidates == req'[r].availableModels
                    qualified == ContextQualified(req'[r].message)
                IN /\ req'[r].pc = "selecting"
                   /\ Len(candidates) > 0
                   /\ prefs.priority # "auto" =>
                        IF Passing(qualified, prefs) = {}
                        THEN candidates = qualified
                        ELSE /\ \A i \in DOMAIN candidates :
                                    candidates[i].id \notin Range(prefs.excludedModels)
                             /\ candidates = Filter(qualified, Passing(qualified, prefs))]_vars

\* a selection call made for a user who excludes the three coding models
C21_Witness ==
    /\ req["r1"].pc = "selecting"
    /\ RoutedUser \in DOMAIN userPreferences
    /\ userPreferences[RoutedUser].excludedModels = CodingModelIds
    /\ userPreferences[RoutedUser].allowedCategories = <<>>
    /\ Len(req["r1"].availableModels) = 9
    /\ \A i \in 1..9 : req["r1"].availableModels[i].category # "coding"

\* The place of a model in the declared registry
Position(m) == CHOOSE k \in DOMAIN AVAILABLE_MODELS : AVAILABLE_MODELS[k] = m

\* C22: for a message of L characters the context asked of the registry is
\* min(ceil(L/4) * (2 if ceil(L/4) > 1000 else 1), 100000), and the
\* candidates before the preference filters are the models of the registry
\* whose context window is at least that, each once, in registry order.
C22_ContextEstimate ==
    [](lastCall.op = "getModelsByContextRequirement" =>
        LET L == lastCall.message
            tokens == (L \div 4) + (IF L % 4 = 0 THEN 0 ELSE 1)
            need == Min(tokens * (IF tokens > 1000 THEN 2 ELSE 1), 100000)
            models == lastCall.models
        IN /\ lastCall.minContextNeeded = need
           /\ Range(models) = {m \in Range(AVAILABLE_MODELS) : m.contextWindow >= need}
           /\ \A i, j \in DOMAIN models : i < j => Position(models[i]) < Position(models[j]))

\* 192000 characters are 48000 tokens, doubled: the model whose window is
\* exactly 96000 is a candidate, the fifth of seven
C22_Witness ==
    /\ lastCall.op = "getModelsByContextRequirement"
    /\ lastCall.message = 192000
    /\ lastCall.minContextNeeded = 96000
    /\ Len(lastCall.models) = 7
    /\ lastCall.models[5].contextWindow = 96000

RegistryIds == {AVAILABLE_MODELS[i].id : i \in DOMAIN AVAILABLE_MODELS}

\* The selection call of the request returned a JSON object whose modelId is
\* the id of no model of the registry
UnknownSelected(h) ==
    /\ h.selection # None
    /\ h.selection[1].kind = "object"
    /\ h.selection[1].modelId \notin RegistryIds

\* The request ended with a response
Responded(r) == req[r].pc = "done" /\ outcome[r].status = 200

\* The decision analyzeAndRoute returned for an unknown model id, and its
\* dispatch
UnknownDegraded(r) ==
    /\ (req[r].pc = "dispatch" =>
            /\ req[r].decision.selectedModel = FirstFastest
            /\ req[r].decision.confidence = 3
            /\ req[r].decision.reasoning = UnknownModelReasoning)
    /\ (req[r].pc = "generating" => req[r].modelConfig = FirstFastest)
    /\ (hist[r].chosen # "none" => hist[r].chosen = FirstFastest.id)

\* C23 (as claimed): the selection backend naming a model that is not in
\* the registry, the request is dispatched to the first fastest model with
\* confidence 0.3, and the response the request ends with comes from that
\* model and carries the unknown-model reasoning.
C23_ScenarioB_AsClaimed ==
    \A r \in Requests :
        UnknownSelected(hist[r]) =>
            /\ UnknownDegraded(r)
            /\ (Responded(r) =>
                    /\ outcome[r].response[1].model = FirstFastest.name
                    /\ outcome[r].response[1].reasoning = UnknownModelReasoning)

\* C23 (amended): the same, for the response of a request whose dispatch to
\* that model returned content; the entry logged for it has confidence 0.3.
\* When that dispatch fails and the fallback dispatch returns content, the
\* response carries the reasoning of the fallback path instead.
C23_ScenarioB ==
    \A r \in Requests :
        UnknownSelected(hist[r]) =>
            /\ UnknownDegraded(r)
            /\ (Responded(r) /\ hist[r].genFailures = 0 =>
                    /\ outcome[r].response[1].model = FirstFastest.name
                    /\ outcome[r].response[1].reasoning = UnknownModelReasoning
                    /\ hist[r].logs[1].confidence = 3
                    /\ hist[r].logs[1].selectedModel = FirstFastest.id)
            /\ (Responded(r) /\ hist[r].genFailures > 0 =>
                    /\ outcome[r].response[1].model = FirstFastest.name
                    /\ outcome[r].response[1].reasoning = PrimaryFailedReasoning)

C23_Witness ==
    /\ UnknownSelected(hist["r1"])
    /\ Responded("r1")
    /\ hist["r1"].genFailures = 0
    /\ outcome["r1"].response[1].reasoning = UnknownModelReasoning
    /\ hist["r1"].selection[1].modelId = "no-such/model"

\* C24 (as claimed): the content of the selection reply not being JSON,
\* analyzeAndRoute returns the decision it returns for an unknown model id:
\* the first fastest model, the unknown-model reasoning, confidence 0.3.
C24_UnparsableAsUnknown ==
    \A r \in Requests :
        (req[r].pc = "dispatch" /\ hist[r].selReply = "unparsable")
        => /\ req[r].decision.selectedModel = FirstFastest
           /\ req[r].decision.reasoning = UnknownModelReasoning
           /\ req[r].decision.confidence = 3

ModelWithId(id) == CHOOSE m \in Range(AVAILABLE_MODELS) : m.id = id

\* The selection call of the request returned a JSON object whose modelId is
\* the id of a model of the registry
KnownSelected(h) ==
    /\ h.selection # None
    /\ h.selection[1].kind = "object"
    /\ h.selection[1].modelId \in RegistryIds

\* C25: no preferences stored (every user has the default record), the
\* selection backend returning {modelId: a registry model's id, reasoning,
\* confidence}, analyzeAndRoute's decision is that model with that
\* reasoning, the dispatch goes to that model, and if the limiter admits the
\* dispatch and the generation call returns content, routeAndRespond returns
\* a response whose model is the display name of that model and whose
\* reasoning is the reasoning of the selection reply.
C25_ScenarioA ==
    /\ [](userPreferences = [u \in {} |-> DEFAULT_ROUTING_PREFERENCES])
    /\ [](\A r \in Requests :
            KnownSelected(hist[r]) =>
                LET chosen == ModelWithId(hist[r].selection[1].modelId)
                IN /\ (req[r].pc = "dispatch" =>
                            /\ req[r].decision.selectedModel = chosen
                            /\ req[r].decision.reasoning = hist[r].selection[1].reasoning)
                   /\ (req[r].pc = "generating" => req[r].modelConfig = chosen)
                   /\ (Responded(r) /\ hist[r].genFailures = 0 =>
                            /\ outcome[r].response[1].model = chosen.name
                            /\ outcome[r].response[1].reasoning = hist[r].selection[1].reasoning
                            /\ outcome[r].response[1].content = "Hello"))
    /\ [][\A r \in Requests :
            (KnownSelected(hist[r]) /\ req[r].pc = "generating" /\ req'[r].pc = "done")
            => Responded(r)']_vars

C25_Witness ==
    /\ Responded("r1")
    /\ hist["r1"].selection = Some(SelectionReply("object", "deepseek/deepseek-r1:free", "x", Some(9)))
    /\ hist["r1"].genFailures = 0
    /\ outcome["r1"].response[1].model = "DeepSeek R1"
    /\ outcome["r1"].response[1].reasoning = "x"

\* C26 (as claimed): the entry a request logs, on the primary path or on the
\* fallback path, carries the priority of the record the store holds for
\* the requesting user (the default record's when it holds none).
C26_PriorityLogged ==
    [][\A r \in Requests :
        hist'[r].logs # hist[r].logs
        => hist'[r].logs[Len(hist'[r].logs)].priority
              = getUserPreferences(userPreferences, RoutedUser).priority]_vars

\* C27 (as claimed): the confidence of every decision analyzeAndRoute
\* returns, and of every entry of the analytics log, is between 0 and 1 (0
\* and 10 tenths), whatever the selection backend replies.
C27_ConfidenceInRange ==
    /\ \A r \in Requests :
        req[r].pc \in {"dispatch", "generating"} => req[r].decision.confidence \in 0..10
    /\ \A i \in DOMAIN analytics.routingDecisions :
        analytics.routingDecisions[i].confidence \in 0..10

\* C28 (as claimed): the decision adopted from a selection reply carries the
\* confidence of the reply when the reply has one, 0 included, and 0.8 when
\* it has none.
C28_AdoptedConfidence ==
    \A r \in Requests :
        (req[r].pc = "dispatch" /\ KnownSelected(hist[r]))
        => req[r].decision.confidence =
              IF hist[r].selection[1].confidence = None
              THEN 8
              ELSE hist[r].selection[1].confidence[1]

\* C29 (as claimed): every decision analyzeAndRoute returns lists at most 3
\* alternatives, the selected model not among them; an adopted decision
\* lists the first candidates other than the selected model, in the order
\* of the filtered candidate list.
C29_AlternativesBounded ==
    \A r \in Requests :
        req[r].pc = "dispatch" =>
            LET decision == req[r].decision
                others == {m \in Range(req[r].availableModels) : m.id # decision.selectedModel.id}
            IN /\ Len(decision.alternatives) <= 3
               /\ decision.selectedModel \notin Range(decision.alternatives)
               /\ (KnownSelected(hist[r]) =>
                        /\ Len(decision.alternatives) = Min(3, Cardinality(others))
                        /\ decision.alternatives =
                             SubSeq(Filter(req[r].availableModels, others), 1,
                                    Len(decision.alternatives)))

\* C30: the registry array is never changed: it is the declared list, in
\* declaration order, in every state; so the first fast model of the
\* array, which every degraded decision selects and the top-level fallback
\* dispatches to, is always the same model, and the array always holds the
\* router model. (The one statement that writes the array, the in-place
\* sort of the largest-context branch, is never reached: every message has
\* candidates.)
C30_RegistryImmutable ==
    /\ [](registry = AVAILABLE_MODELS)
    /\ [](getFastestModels(registry)[1] = FirstFastest)
    /\ [](\E i \in DOMAIN registry : registry[i].id = ROUTER_MODEL_ID)
    /\ [](\A r \in Requests :
            /\ (req[r].pc = "fbGenerating" => req[r].modelConfig = FirstFastest)
            /\ (req[r].pc = "dispatch" /\ ~KnownSelected(hist[r])
                    => req[r].decision.selectedModel = FirstFastest)
            /\ (req[r].pc = "selecting"
                    => Len(getModelsByContextRequirement(registry,
                                                         minContextNeeded(req[r].message))) > 0))

\* the longest message the route lets through was answered by the fallback
\* dispatch
C30_Witness ==
    /\ Responded("r1")
    /\ hist["r1"].genFailures = 1
    /\ hist["r1"].logs[1].userMessage = 200
    /\ hist["r1"].logs[1].selectedModel = FirstFastest.id
    /\ registry = AVAILABLE_MODELS

----------------------------------------------------------------------------
(* Chat route properties *)

\* A message POST /api/chat does not accept: missing, not a string, empty
\* after trim(), or of more than 10000 characters after trim()
Unacceptable(message) ==
    \/ message = None
    \/ ~message[1].isString
    \/ message[1].trimmed = 0
    \/ message[1].trimmed > 10000

\* C31: POST /api/chat with a body whose message is missing, not a string,
\* empty after trimming or longer than 10000 characters after trimming
\* answers 400 and the router is not entered: the limiter is as it was (no
\* check made, no slot taken), no backend call is issued, the analytics are
\* as they were. Any other message enters the router, which makes its
\* admission check.
C31_InvalidMessageRejected ==
    [][\A r \in Requests :
        (lastCall'.op = "postChat" /\ req[r].pc = "idle" /\ req'[r].pc # "idle"
         /\ lastCall'.body.parsable)
        => IF Unacceptable(lastCall'.body.message)
           THEN /\ outcome'[r].status = 400
                /\ outcome'[r].response = None
                /\ req'[r].pc = "done"
                /\ requests' = requests
                /\ window' = window
                /\ lastProbe' = "none"
                /\ hist'[r] = NoHistory
                /\ analytics' = analytics
                /\ recorded' = recorded
           ELSE /\ hist'[r].checks = 1
                /\ lastProbe' # "none"
                /\ req'[r].pc \in {"selecting", "dispatch"}]_vars

\* a message of 10001 characters refused while the limiter has slots left
C31_Witness ==
    /\ lastCall.op = "postChat"
    /\ lastCall.body.message = Some(Text(MAX_MESSAGE_LENGTH + 1, MAX_MESSAGE_LENGTH + 1))
    /\ outcome["r1"].status = 400
    /\ hist["r1"] = NoHistory
    /\ "global" \in DOMAIN requests
    /\ requests["global"].count = 5
    /\ analytics = EmptyAnalytics

----------------------------------------------------------------------------
(* The limiter behind GET /api/chat alone, on a finer clock *)

ClockSteps == {StepMs, StepMs + 1}

\* Date.now() advances by d
Advance(d) ==
    /\ now + d <= MaxClock
    /\ now' = now + d
    /\ Unchecked
    /\ lastCall' = NoCall
    /\ UNCHANGED <<registry, userPreferences, analytics, req, outcome, hist, recorded>>

NextLimiter ==
    \/ \E d \in ClockSteps : Advance(d)
    \/ GetStatus

SpecLimiter == Init /\ [][NextLimiter]_vars

----------------------------------------------------------------------------
(* Limiter properties *)

\* a window is stored and the clock has not passed its resetTime
Live(reqs, t) == "global" \in DOMAIN reqs /\ t <= reqs["global"].resetTime

\* C32: getTimeUntilReset returns 0 when no window is stored or the stored
\* one has expired, and resetTime - now otherwise; the value is never negative
\* and never above the window length; the call leaves the limiter as it was
\* (the map after getStatus is the one its canMakeRequest alone produces).
C32_TimeUntilReset ==
    [][lastCall'.op = "getStatus"
       => LET v == lastCall'.result.timeUntilReset
          IN /\ v = IF Live(requests, now)
                    THEN requests["global"].resetTime - now
                    ELSE 0
             /\ v >= 0
             /\ v <= RATE_LIMIT_WINDOW_MS
             /\ requests' = canMakeRequest(requests, now).requests]_vars

\* a status read strictly inside a window that has admitted before
C32_Witness ==
    /\ lastCall.op = "getStatus"
    /\ lastCall.result.timeUntilReset > 0
    /\ lastCall.result.timeUntilReset < RATE_LIMIT_WINDOW_MS
    /\ lastCall.result.currentCount >= 2

\* C33: the limiter holds either no entry or an entry whose count is between
\* 1 and MAX_REQUESTS_PER_MINUTE; while the entry keeps its resetTime (within
\* one window) the count never decreases, it grows by exactly 1 at a check
\* that admits into the running window, and a check that denies or a step
\* without a check leaves the entry as it is; a check that opens a window
\* stores count 1 and a later resetTime.
C33_CountInvariant ==
    /\ []("global" \in DOMAIN requests
          => /\ requests["global"].count >= 1
             /\ requests["global"].count <= MAX_REQUESTS_PER_MINUTE)
    /\ [][/\ "global" \in DOMAIN requests => "global" \in DOMAIN requests'
          /\ ("global" \in DOMAIN requests
              /\ requests'["global"].resetTime = requests["global"].resetTime)
             => /\ requests'["global"].count >= requests["global"].count
                /\ requests'["global"].count - requests["global"].count
                      = (IF lastProbe' = "admit" THEN 1 ELSE 0)
          /\ lastProbe' = "admit"
             => /\ requests'["global"].resetTime = requests["global"].resetTime
                /\ requests'["global"].count = requests["global"].count + 1
          /\ lastProbe' = "reset"
             => /\ requests'["global"].count = 1
                /\ requests'["global"].resetTime = now + RATE_LIMIT_WINDOW_MS
                /\ "global" \in DOMAIN requests
                   => requests'["global"].resetTime > requests["global"].resetTime
          /\ lastProbe' \in {"deny", "none"} => requests' = requests]_vars

\* the twentieth admission of a window, made by the dispatch of a request
C33_Witness ==
    /\ "global" \in DOMAIN requests
    /\ requests["global"].count = MAX_REQUESTS_PER_MINUTE
    /\ lastProbe = "admit"
    /\ req["r1"].pc = "generating"
    /\ now > 0

----------------------------------------------------------------------------
(* A burst of POST /api/chat requests, one after the other, inside one window *)

\* The answer has been sent; the next POST /api/chat arrives
NextRequest(r) ==
    /\ req[r].pc = "done"
    /\ req' = [req EXCEPT ![r] = Idle]
    /\ outcome' = [outcome EXCEPT ![r] = NoReply]
    /\ hist' = [hist EXCEPT ![r] = NoHistory]
    /\ Unchecked
    /\ lastCall' = NoCall
    /\ UNCHANGED <<now, registry, userPreferences, analytics, recorded>>

NextBurst ==
    \/ \E body \in CoreBodies : PostChat("r1", body)
    \/ \E reply \in CoreSelectionReplies : Selected("r1", reply)
    \/ Dispatch("r1")
    \/ \E reply \in CoreGenerationReplies : Generated("r1", reply)
    \/ FallbackDispatch("r1")
    \/ \E reply \in CoreGenerationReplies : FallbackGenerated("r1", reply)
    \/ NextRequest("r1")

SpecBurst == Init /\ [][NextBurst]_vars

----------------------------------------------------------------------------
(* Slot accounting *)

\* The request was answered by the normal path: the check of analyzeAndRoute
\* admitted, the check of callSelectedModel admitted, the generation call
\* returned content
NormalPath(r) ==
    /\ req[r].pc = "done"
    /\ outcome[r].status = 200
    /\ ~hist[r].entryDenied
    /\ hist[r].genFailures = 0

\* The number of requests answered by the normal path so far: the entries
\* logged by the primary path of routeAndRespond
NormalAnswers ==
    Cardinality({i \in 1..Len(recorded) : recorded[i].reasoning # FallbackLogReasoning})

FallbackAnswers ==
    Cardinality({i \in 1..Len(recorded) : recorded[i].reasoning = FallbackLogReasoning})

\* C34: a request answered by the normal path has taken exactly two slots of
\* the limiter; no request takes more than three; the slots taken inside one
\* window are the admissions of that window, at most 20, so at most 10 requests
\* are answered by the normal path inside one window.
C34_SlotsPerRequest ==
    /\ \A r \in Requests : NormalPath(r) => hist[r].slots = 2
    /\ \A r \in Requests : hist[r].slots <= 3 /\ hist[r].checks <= 3
    /\ "global" \in DOMAIN requests => requests["global"].count = window.admits
    /\ window.admits <= MAX_REQUESTS_PER_MINUTE
    /\ 2 * NormalAnswers + 3 * FallbackAnswers <= window.admits
    /\ NormalAnswers <= 10

\* the tenth request answered by the normal path; the window is used up
C34_Witness ==
    /\ NormalPath("r1")
    /\ NormalAnswers = 10
    /\ requests["global"].count = MAX_REQUESTS_PER_MINUTE

----------------------------------------------------------------------------
(* Selection against the candidates *)

\* C35: a parsed selection being adopted (it names a model of the registry),
\* the model of the decision, which is the model dispatched to, is one of the
\* candidates the selection call was given: its context window suffices for
\* the message and it is among the models the preference filters left.
C35_AdoptedIsCandidate ==
    \A r \in Requests :
        KnownSelected(hist[r]) =>
            /\ (req[r].pc = "dispatch" =>
                    /\ req[r].decision.selectedModel \in Range(req[r].availableModels)
                    /\ req[r].decision.selectedModel.contextWindow
                          >= minContextNeeded(req[r].message))
            /\ (req[r].pc = "generating" /\ hist[r].genCalls = 1 =>
                    req[r].modelConfig \in Range(req[r].availableModels))

----------------------------------------------------------------------------
(* Counters of the tracker *)

\* The sum of the counts of a usage table
RECURSIVE SumOfCounts(_)
SumOfCounts(usage) ==
    IF usage = <<>> THEN 0 ELSE Head(usage).count + SumOfCounts(Tail(usage))

\* The sum of the tokensUsed of recorded[from .. to]
RECURSIVE SumOfTokens(_, _)
SumOfTokens(from, to) ==
    IF from > to THEN 0
    ELSE IF from = to THEN recorded[from].tokensUsed
    ELSE SumOfTokens(from, (from + to) \div 2) + SumOfTokens((from + to) \div 2 + 1, to)

\* C36: at every moment totalRequests is the sum of the per-model counts and
\* the sum of the per-category counts (each table has one count per key),
\* totalTokensUsed is the sum of the tokensUsed of the entries logged since the
\* last reset, and the log holds min(totalRequests, 1000) entries.
C36_CountersConsistent ==
    /\ analytics.totalRequests = Len(recorded)
    /\ analytics.totalRequests = SumOfCounts(analytics.modelUsage)
    /\ analytics.totalRequests = SumOfCounts(analytics.categoryUsage)
    /\ \A i, j \in DOMAIN analytics.modelUsage :
            analytics.modelUsage[i].key = analytics.modelUsage[j].key => i = j
    /\ \A i, j \in DOMAIN analytics.categoryUsage :
            analytics.categoryUsage[i].key = analytics.categoryUsage[j].key => i = j
    /\ analytics.totalTokensUsed = SumOfTokens(1, Len(recorded))
    /\ Len(Log) = Min(analytics.totalRequests, MAX_DECISIONS_LOGGED)

\* more decisions logged than the log keeps, on more than one model
C36_Witness ==
    /\ lastCall.op = "logRoutingDecision"
    /\ analytics.totalRequests = MAX_DECISIONS_LOGGED + MaxOver
    /\ Len(Log) = MAX_DECISIONS_LOGGED
    /\ Len(analytics.modelUsage) >= 2
    /\ analytics.totalTokensUsed > MAX_DECISIONS_LOGGED

----------------------------------------------------------------------------
(* The status read against the limiter it leaves *)

\* C37: the status getStatus returns agrees with the limiter it leaves
\* behind: if a window is running after the call, the currentCount returned
\* is that window's count; and a status read made when no window is stored,
\* or when the stored one has expired, leaves no running window with a
\* non-zero count.
C37_StatusSnapshot ==
    [][lastCall'.op = "getStatus"
       => /\ Live(requests', now)
             => lastCall'.result.currentCount = requests'["global"].count
          /\ ~Live(requests, now)
             => ~(Live(requests', now) /\ requests'["global"].count > 0)]_vars

----------------------------------------------------------------------------
(* Preferences read by a request *)

\* The entry the step has logged for request r
NewEntry(r) == hist'[r].logs[Len(hist'[r].logs)]

\* C38: whatever POST and DELETE /api/preferences do to the user's record
\* while the request is suspended at its selection call or at its generation
\* call, the entry the primary path logs for the request carries the
\* priority analyzeAndRoute read before the suspension, the one its filters
\* and its selection prompt were made with.
C38_PriorityAtEntry ==
    [][\A r \in Requests :
        (Len(hist'[r].logs) > Len(hist[r].logs)
         /\ hist[r].genFailures = 0 /\ hist[r].priority # None)
        => NewEntry(r).priority = hist[r].priority[1]]_vars

----------------------------------------------------------------------------
(* POST /api/chat while other users' records change *)

OtherUser == "alice"

OthersPartials ==
    {[priority |-> "latency"], [allowedCategories |-> <<"vision">>],
     [excludedModels |-> CodingModelIds]}

OwnPartials == {[priority |-> "quality"], [allowedCategories |-> <<"coding">>]}

OthersPreferencesBodies ==
    {PreferencesBody(TRUE, Some(OtherUser), Some(p)) : p \in OthersPartials}
    \cup {PreferencesBody(TRUE, None, Some(p)) : p \in OwnPartials}

NextOthers ==
    \/ \E body \in OthersPreferencesBodies : PostPreferences(body)
    \/ \E u \in {None, Some(OtherUser)} : DeletePreferences(u)
    \/ \E body \in CoreBodies : PostChat("r1", body)
    \/ \E reply \in CoreSelectionReplies : Selected("r1", reply)
    \/ Dispatch("r1")
    \/ \E reply \in CoreGenerationReplies : Generated("r1", reply)
    \/ FallbackDispatch("r1")
    \/ \E reply \in CoreGenerationReplies : FallbackGenerated("r1", reply)

SpecOthers == Init /\ [][NextOthers]_vars

\* The store without the records of the users POST /api/chat does not route for
Own(store) == [u \in DOMAIN store \cap {RoutedUser} |-> store[u]]

====
